---- MODULE Spec2Model ----
(***************************************************************************)
(* Twine Workshop: the story document model, the link extractor, the three *)
(* codecs (Twine 2 archive, Twee 3, JSON) and the editor's handlers.       *)
(*                                                                         *)
(* A JavaScript string is modelled as a sequence of one-character strings, *)
(* so that splitting, trimming, escaping and pattern matching are computed *)
(* character by character as the code computes them.                       *)
(***************************************************************************)
EXTENDS Integers, Sequences, FiniteSets, TLC

VARIABLES
    content,    \* StoryRenderer: the passage content handed to extractLinks
    links,      \* StoryRenderer: what extractLinks returned for it
    lpc,        \* "edit" while the content is typed, "rendered" after extractLinks ran
    typed,      \* how many pieces the author has typed into the content
    storyObj,   \* codecs: the story object in memory
    file,       \* codecs: the text the last generator produced
    codec,      \* codecs: the generator that produced file
    cpc,        \* codecs: "story" before a generator runs, "file" before a parser runs
    source,     \* codecs: the story the last generator was given
    rounds,     \* codecs: how many conversions (generate, then parse) were completed
    db,         \* editor: the stories collection, the last written document first
    stories,    \* editor: the stories array the library shows
    currentStory,   \* editor: the story that is open, or null
    slot,       \* editor: where in stories currentStory is the same object, else 0
    selectedPassage, \* StoryRenderer.selectedPassage
    nodes,      \* StoryRenderer: the names on the passage nodes of the last render
    modal,      \* editor: the passage modal is active
    pending,    \* editor: the handlers waiting on a StoryDB call, oldest first
    toast,      \* editor: the last message showToast was given
    clicks,     \* editor: how many handlers the author has started
    initPromise,    \* firebase: the attempt initPromise holds, 0 for null
    attempts,   \* firebase: where each initialization attempt is, in starting order
    firestore,  \* firebase: the module's db handle is set
    auth,       \* firebase: the module's auth handle is set
    app,        \* firebase: firebase.initializeApp has made the default app
    callers,    \* firebase: the initFirebase and ensureInit calls made so far
    fn,         \* calls: the function that is called
    args,       \* calls: the arguments it is called with
    ret         \* calls: what it returned, once it has

linkVars == <<content, links, lpc, typed>>

codecVars == <<storyObj, file, codec, cpc, source, rounds>>

firebaseVars == <<initPromise, attempts, firestore, auth, app, callers>>

editorVars ==
    <<db, stories, currentStory, slot, selectedPassage, nodes, modal, pending, toast,
      clicks>>

appVars == <<editorVars, firebaseVars>>

callVars == <<fn, args, ret>>

vars == <<linkVars, codecVars, appVars, callVars>>

(***************************************************************************)
(* Bounds                                                                  *)
(***************************************************************************)
\* number of pieces typed into a passage's content
MaxPieces == 6

\* number of conversions (generate, then parse) applied to one story
MaxRounds == 2

(***************************************************************************)
(* JavaScript string primitives                                            *)
(***************************************************************************)
\* the result of a call that returns v
Ok(v) == [threw |-> FALSE, value |-> v]

\* the result of a call that throws (a TypeError on undefined.trim())
Throw == [threw |-> TRUE, value |-> <<>>]

\* String.prototype.trim strips these (the model's alphabet has two of them)
IsWs(c) == c \in {" ", "\n"}

RECURSIVE TrimStart(_)
TrimStart(s) ==
    IF s = <<>> THEN <<>>
    ELSE IF IsWs(Head(s)) THEN TrimStart(Tail(s)) ELSE s

RECURSIVE TrimEnd(_)
TrimEnd(s) ==
    IF s = <<>> THEN <<>>
    ELSE IF IsWs(s[Len(s)]) THEN TrimEnd(SubSeq(s, 1, Len(s) - 1)) ELSE s

\* String.prototype.trim
Trim(s) == TrimEnd(TrimStart(s))

\* s has pat at (1-based) position i
HasAt(s, pat, i) ==
    /\ i >= 1
    /\ i + Len(pat) - 1 <= Len(s)
    /\ \A k \in 1..Len(pat) : s[i + k - 1] = pat[k]

\* String.prototype.indexOf from position i on, 1-based; 0 when absent
RECURSIVE IndexFrom(_, _, _)
IndexFrom(s, pat, i) ==
    LET hits == { k \in i..(i + 15) : HasAt(s, pat, k) } IN
    IF i + Len(pat) - 1 > Len(s) THEN 0
    ELSE IF hits # {} THEN CHOOSE k \in hits : \A h \in hits : k <= h
    ELSE IndexFrom(s, pat, i + 16)

\* String.prototype.includes
Includes(s, pat) == IndexFrom(s, pat, 1) # 0

\* String.prototype.split with a non-empty string separator
RECURSIVE SplitFrom(_, _, _)
SplitFrom(s, sep, i) ==
    CHOOSE parts \in
        { IF j = 0 THEN <<SubSeq(s, i, Len(s))>>
          ELSE <<SubSeq(s, i, j - 1)>> \o SplitFrom(s, sep, j + Len(sep)) :
            j \in {IndexFrom(s, sep, i)} } : TRUE

Split(s, sep) == SplitFrom(s, sep, 1)

\* the concatenation of a sequence of strings
RECURSIVE ConcatRange(_, _, _)
ConcatRange(ss, lo, hi) ==
    IF lo > hi THEN <<>>
    ELSE IF lo = hi THEN ss[lo]
    ELSE LET mid == (lo + hi) \div 2 IN
         ConcatRange(ss, lo, mid) \o ConcatRange(ss, mid + 1, hi)

Concat(ss) == ConcatRange(ss, 1, Len(ss))

(***************************************************************************)
(* JavaScript numbers. The model's numbers are the multiples of one half:  *)
(* a number is held as the integer count of halves, so 200 stands for 100  *)
(* and 5 for 2.5. Text holds them in decimal, digit by digit.              *)
(***************************************************************************)
Digit == <<"0", "1", "2", "3", "4", "5", "6", "7", "8", "9">>

IsDigit(c) == \E d \in 1..10 : Digit[d] = c

DigitVal(c) == (CHOOSE d \in 1..10 : Digit[d] = c) - 1

\* the whole number n as a JavaScript number
Num(n) == 2 * n

IsWhole(h) == h % 2 = 0

\* the decimal digits of a natural number
RECURSIVE NatDigits(_)
NatDigits(n) ==
    IF n < 10 THEN <<Digit[n + 1]>> ELSE NatDigits(n \div 10) \o <<Digit[(n % 10) + 1]>>

\* String(h), `${h}`: "-" for a negative number, ".5" for an odd count of halves
NumToString(h) ==
    LET a == IF h < 0 THEN -h ELSE h IN
    (IF h < 0 THEN <<"-">> ELSE <<>>)
        \o NatDigits(a \div 2)
        \o (IF IsWhole(a) THEN <<>> ELSE <<".", "5">>)

\* Math.round: to the nearest whole number, a tie going up
MathRound(h) == 2 * ((h + 1) \div 2)

\* the length of the run of digits of s that starts at i
RECURSIVE DigitRun(_, _)
DigitRun(s, i) ==
    IF i > Len(s) \/ ~IsDigit(s[i]) THEN 0 ELSE 1 + DigitRun(s, i + 1)

\* the value of the digits s[i..j]
RECURSIVE DigitsVal(_, _, _)
DigitsVal(s, i, j) ==
    IF j < i THEN 0 ELSE 10 * DigitsVal(s, i, j - 1) + DigitVal(s[j])

NaN == [nan |-> TRUE, h |-> 0]

Finite(h) == [nan |-> FALSE, h |-> h]

\* parseInt(s): leading blanks, a sign, then digits up to the first other character
ParseInt(s) ==
    LET t == TrimStart(s)
        neg == t # <<>> /\ t[1] = "-"
        from == IF t # <<>> /\ t[1] \in {"-", "+"} THEN 2 ELSE 1
        n == DigitRun(t, from) IN
    IF n = 0 THEN NaN
    ELSE LET v == DigitsVal(t, from, from + n - 1) IN Finite(IF neg THEN -2 * v ELSE 2 * v)

\* parseFloat(s): as parseInt, with a fraction (the model's fractions are ".5")
ParseFloat(s) ==
    LET t == TrimStart(s)
        neg == t # <<>> /\ t[1] = "-"
        from == IF t # <<>> /\ t[1] \in {"-", "+"} THEN 2 ELSE 1
        n == DigitRun(t, from)
        half == HasAt(t, <<".", "5">>, from + n) IN
    IF n = 0 THEN NaN
    ELSE LET v == 2 * DigitsVal(t, from, from + n - 1) + (IF half THEN 1 ELSE 0) IN
         Finite(IF neg THEN -v ELSE v)

\* r || d for a parsed number r: NaN and 0 are falsy
NumOr(r, d) == IF r.nan \/ r.h = 0 THEN d ELSE r.h

\* undefined where a number is expected (a passage the editor created has no
\* width): no number of the model is this
UndefNum == -1000001

\* h || d for a number or missing h: 0 is falsy
OrNum(h, d) == IF h = 0 \/ h = UndefNum THEN d ELSE h

\* s || d for a string s: the empty string is falsy
OrStr(s, d) == IF s = <<>> THEN d ELSE s

(***************************************************************************)
(* Values a field may lack                                                 *)
(***************************************************************************)
\* undefined / null where a string is expected: no string of the model is this
Undefined == <<"undefined">>

\* v || d for a string or missing v
OrDef(v, d) == IF v = Undefined \/ v = <<>> THEN d ELSE v

(***************************************************************************)
(* escapeHtml and the HTML parser's character references                   *)
(***************************************************************************)
\* str.replace(/ch/g, rep) for a one-character pattern
ReplaceChar(s, ch, rep) ==
    Concat([k \in 1..Len(s) |-> IF s[k] = ch THEN rep ELSE <<s[k]>>])

AMP == <<"&", "a", "m", "p", ";">>
LT == <<"&", "l", "t", ";">>
GT == <<"&", "g", "t", ";">>
QUOT == <<"&", "q", "u", "o", "t", ";">>
APOS == <<"&", "#", "3", "9", ";">>

\* escapeHtml without the replacement of the double quote
escapeHtml_NoQuot(str) ==
    IF str = <<>> \/ str = Undefined THEN <<>>
    ELSE ReplaceChar(ReplaceChar(ReplaceChar(ReplaceChar(str,
            "&", AMP), "<", LT), ">", GT), "'", APOS)

\* escapeHtml replacing "&" last, after the references were written
escapeHtml_AmpLast(str) ==
    IF str = <<>> \/ str = Undefined THEN <<>>
    ELSE ReplaceChar(ReplaceChar(ReplaceChar(ReplaceChar(ReplaceChar(str,
            "<", LT), ">", GT), "\"", QUOT), "'", APOS), "&", AMP)

\* escapeHtml(str): the five replacements, "&" first
escapeHtml(str) ==
    IF str = <<>> \/ str = Undefined THEN <<>>
    ELSE ReplaceChar(ReplaceChar(ReplaceChar(ReplaceChar(ReplaceChar(str,
            "&", AMP), "<", LT), ">", GT), "\"", QUOT), "'", APOS)

\* the character references the HTML tokenizer decodes: the five that escapeHtml
\* writes, and the names it also takes without the semicolon
CharRefs ==
    << [ref |-> AMP, ch |-> "&"], [ref |-> LT, ch |-> "<"], [ref |-> GT, ch |-> ">"],
       [ref |-> QUOT, ch |-> "\""], [ref |-> APOS, ch |-> "'"],
       [ref |-> <<"&", "a", "m", "p">>, ch |-> "&"],
       [ref |-> <<"&", "l", "t">>, ch |-> "<"],
       [ref |-> <<"&", "g", "t">>, ch |-> ">"],
       [ref |-> <<"&", "q", "u", "o", "t">>, ch |-> "\""] >>

\* the text of an attribute value or of a text node, its references decoded
RECURSIVE DecodeRefs(_, _)
DecodeRefs(s, i) ==
    IF i > Len(s) THEN <<>>
    ELSE IF s[i] = "&" /\ \E r \in 1..Len(CharRefs) : HasAt(s, CharRefs[r].ref, i)
    THEN LET r == CHOOSE q \in 1..Len(CharRefs) :
                    /\ HasAt(s, CharRefs[q].ref, i)
                    /\ \A o \in 1..(q - 1) : ~HasAt(s, CharRefs[o].ref, i) IN
         <<CharRefs[r].ch>> \o DecodeRefs(s, i + Len(CharRefs[r].ref))
    ELSE <<s[i]>> \o DecodeRefs(s, i + 1)

(***************************************************************************)
(* The story document. story.passages is a JavaScript object: its keys are *)
(* unique and keep their insertion order, so it is held as a sequence of   *)
(* passages, each with the key it is stored under, the keys distinct.      *)
(***************************************************************************)
\* Object.keys(passages)
Keys(ps) == [k \in 1..Len(ps) |-> ps[k].key]

\* key is an own key of passages
HasKey(ps, key) == \E k \in 1..Len(ps) : ps[k].key = key

\* passages[key], for an own key
Lookup(ps, key) == ps[CHOOSE k \in 1..Len(ps) : ps[k].key = key]

\* passages[p.key] = p: an existing key keeps its place, a new one goes last
PutPassage(ps, p) ==
    IF HasKey(ps, p.key)
    THEN [k \in 1..Len(ps) |-> IF ps[k].key = p.key THEN p ELSE ps[k]]
    ELSE Append(ps, p)

\* passages[p.key] = p on a plain object: "__proto__" is the accessor of
\* Object.prototype, the assignment sets the prototype and adds no key
AssignPassage(ps, p) == IF p.key = <<"__proto__">> THEN ps ELSE PutPassage(ps, p)

\* the same for tagColors[name] = color
PutColor(cs, c) ==
    IF \E k \in 1..Len(cs) : cs[k].name = c.name
    THEN [k \in 1..Len(cs) |-> IF cs[k].name = c.name THEN c ELSE cs[k]]
    ELSE Append(cs, c)

\* array.join(sep)
RECURSIVE Join(_, _)
Join(ss, sep) ==
    IF ss = <<>> THEN <<>>
    ELSE IF Len(ss) = 1 THEN ss[1]
    ELSE ss[1] \o sep \o Join(Tail(ss), sep)

\* array.filter(t => t.trim()): the strings that are not blank
RECURSIVE FilterNonBlank(_)
FilterNonBlank(ss) ==
    IF ss = <<>> THEN <<>>
    ELSE (IF Trim(Head(ss)) # <<>> THEN <<Head(ss)>> ELSE <<>>) \o FilterNonBlank(Tail(ss))

\* array.filter(t => t): the strings that are not empty
RECURSIVE FilterNonEmpty(_)
FilterNonEmpty(ss) ==
    IF ss = <<>> THEN <<>>
    ELSE (IF Head(ss) # <<>> THEN <<Head(ss)>> ELSE <<>>) \o FilterNonEmpty(Tail(ss))

\* no result: what a parser returns instead of a story
NoResult == [none |-> TRUE]

IsResult(r) == r # NoResult

(***************************************************************************)
(* generateTwineArchive. The archive is text: a sequence of characters in  *)
(* which each fixed word of the template (a tag name, an attribute name,   *)
(* a constant attribute value) is one symbol.                              *)
(***************************************************************************)
Q == "\""

\* name="value" inside a start tag
Attr(name, value) == <<name, Q>> \o value \o <<Q>>

\* one <tw-passagedata> element
PassageElement(p, pid) ==
    LET tags == IF p.tags = Undefined THEN <<>> ELSE Join(p.tags, <<" ">>)
        x == MathRound(OrNum(p.x, Num(100)))
        y == MathRound(OrNum(p.y, Num(100)))
        width == OrNum(p.width, Num(100))
        height == OrNum(p.height, Num(100)) IN
    <<"<tw-passagedata">>
        \o Attr(" pid=", pid)
        \o Attr(" name=", escapeHtml(p.key))
        \o Attr(" tags=", escapeHtml(tags))
        \o Attr(" position=", NumToString(x) \o <<",">> \o NumToString(y))
        \o Attr(" size=", NumToString(width) \o <<",">> \o NumToString(height))
        \o <<">">> \o escapeHtml(OrDef(p.content, <<>>)) \o <<"</tw-passagedata>">>

\* one <tw-tag> element
TagElement(c) ==
    <<"<tw-tag">> \o Attr(" name=", escapeHtml(c.name)) \o Attr(" color=", escapeHtml(c.color))
        \o <<">", "</tw-tag>">>

\* without "if (name === story.startPassage) startNodePid = pid.toString()"
StartNodePid_AlwaysFirst(story) == <<"1">>

\* the pid of the start passage: the position of its name among the keys, else "1"
StartNodePid(story) ==
    LET names == Keys(story.passages)
        hits == { k \in 1..Len(names) : names[k] = story.startPassage } IN
    IF hits = {} THEN <<"1">> ELSE NatDigits(CHOOSE k \in hits : TRUE)

\* generateTwineArchive(story); fresh is what generateIFID() returns if called
generateTwineArchive(story, fresh) ==
    LET passages == story.passages
        ifid == OrDef(story.ifid, fresh)
        format == OrDef(story.format, <<"Harlowe">>)
        formatVersion == OrDef(story.formatVersion, <<"3.3.9">>)
        zoom == OrNum(story.zoom, Num(1))
        storyTags == OrDef(story.tags, <<>>)
        stylesheet == OrDef(story.stylesheet, <<>>)
        javascript == OrDef(story.javascript, <<>>) IN
    <<"<tw-storydata">>
        \o Attr(" name=", escapeHtml(story.title))
        \o Attr(" startnode=", StartNodePid(story))
        \o Attr(" creator=", <<"Twine Workshop">>)
        \o Attr(" creator-version=", <<"1.0.0">>)
        \o Attr(" format=", escapeHtml(format))
        \o Attr(" format-version=", escapeHtml(formatVersion))
        \o Attr(" ifid=", ifid)
        \o Attr(" options=", <<>>)
        \o Attr(" tags=", escapeHtml(storyTags))
        \o Attr(" zoom=", NumToString(zoom))
        \o <<" hidden", ">">>
        \o <<"<style">> \o Attr(" role=", <<"stylesheet">>)
            \o Attr(" id=", <<"twine-user-stylesheet">>)
            \o Attr(" type=", <<"text/twine-css">>)
            \o <<">">> \o stylesheet \o <<"</style>">>
        \o <<"<script">> \o Attr(" role=", <<"script">>)
            \o Attr(" id=", <<"twine-user-script">>)
            \o Attr(" type=", <<"text/twine-javascript">>)
            \o <<">">> \o javascript \o <<"</script>">>
        \o Concat([k \in 1..Len(story.tagColors) |-> TagElement(story.tagColors[k])])
        \o Concat([k \in 1..Len(passages) |-> PassageElement(passages[k], NatDigits(k))])
        \o <<"</tw-storydata>">>

(***************************************************************************)
(* DOMParser.parseFromString(html, 'text/html') for the archive's markup:  *)
(* start tags with quoted attributes, raw text in <style> and <script>,    *)
(* text with character references elsewhere.                               *)
(***************************************************************************)
AttrNames ==
    { " name=", " startnode=", " creator=", " creator-version=", " format=",
      " format-version=", " ifid=", " options=", " tags=", " zoom=", " role=", " id=",
      " type=", " color=", " pid=", " position=", " size=" }

\* the attributes of the start tag whose name ends before i, and where the tag ends;
\* a tag the text ends in is dropped (closed = FALSE)
RECURSIVE ReadAttrs(_, _)
ReadAttrs(t, i) ==
    IF i > Len(t) THEN [attrs |-> <<>>, next |-> Len(t) + 1, closed |-> FALSE]
    ELSE IF t[i] = ">" THEN [attrs |-> <<>>, next |-> i + 1, closed |-> TRUE]
    ELSE IF t[i] \in AttrNames /\ HasAt(t, <<Q>>, i + 1)
    THEN LET j == IndexFrom(t, <<Q>>, i + 2) IN
         IF j = 0 THEN [attrs |-> <<>>, next |-> Len(t) + 1, closed |-> FALSE]
         ELSE LET rest == ReadAttrs(t, j + 1) IN
              [attrs |-> <<[name |-> t[i],
                            value |-> DecodeRefs(SubSeq(t, i + 2, j - 1), 1)]>> \o rest.attrs,
               next |-> rest.next, closed |-> rest.closed]
    ELSE ReadAttrs(t, i + 1)

\* element.getAttribute(name): the first attribute of that name, null when absent
GetAttr(attrs, name) ==
    LET hits == { k \in 1..Len(attrs) : attrs[k].name = name } IN
    IF hits = {} THEN Undefined
    ELSE attrs[CHOOSE k \in hits : \A h \in hits : k <= h].value

ChildTags == { "<style", "<script", "<tw-tag", "<tw-passagedata" }

CloseTag(tag) ==
    CASE tag = "<style" -> "</style>"
      [] tag = "<script" -> "</script>"
      [] tag = "<tw-tag" -> "</tw-tag>"
      [] tag = "<tw-passagedata" -> "</tw-passagedata>"

\* the child elements of <tw-storydata> from position i on, in document order,
\* each with its attributes and its textContent
RECURSIVE Children(_, _)
Children(t, i) ==
    IF i > Len(t) \/ t[i] = "</tw-storydata>" THEN <<>>
    ELSE IF t[i] \in ChildTags
    THEN LET a == ReadAttrs(t, i + 1)
             e == IndexFrom(t, <<CloseTag(t[i])>>, a.next)
             raw == SubSeq(t, a.next, IF e = 0 THEN Len(t) ELSE e - 1)
             text == IF t[i] \in {"<style", "<script"} THEN raw ELSE DecodeRefs(raw, 1) IN
         IF ~a.closed THEN <<>>
         ELSE <<[tag |-> t[i], attrs |-> a.attrs, text |-> text]>>
                  \o Children(t, IF e = 0 THEN Len(t) + 1 ELSE e + 1)
    ELSE Children(t, i + 1)

\* the elements of es with tag name tag
RECURSIVE ByTag(_, _)
ByTag(es, tag) ==
    IF es = <<>> THEN <<>>
    ELSE (IF Head(es).tag = tag THEN <<Head(es)>> ELSE <<>>) \o ByTag(Tail(es), tag)

\* querySelector over three selectors in turn: the first element of the tag that
\* has type = ty, else the first element with id = id, else the first of the tag
\* with role = role; its textContent, '' when there is none
SelectText(es, tag, ty, id, role) ==
    LET byType == { k \in 1..Len(es) : es[k].tag = tag /\ GetAttr(es[k].attrs, " type=") = ty }
        byId == { k \in 1..Len(es) : GetAttr(es[k].attrs, " id=") = id }
        byRole == { k \in 1..Len(es) : es[k].tag = tag /\ GetAttr(es[k].attrs, " role=") = role }
        First(S) == CHOOSE k \in S : \A h \in S : k <= h IN
    IF byType # {} THEN es[First(byType)].text
    ELSE IF byId # {} THEN es[First(byId)].text
    ELSE IF byRole # {} THEN es[First(byRole)].text
    ELSE <<>>

(***************************************************************************)
(* parseTwine                                                              *)
(***************************************************************************)
\* a[k] of a split, undefined past its end (k counts from 0)
Part(parts, k) == IF k + 1 <= Len(parts) THEN parts[k + 1] ELSE Undefined

\* parseInt of a string or of undefined
ParseIntOf(v) == IF v = Undefined THEN NaN ELSE ParseInt(v)

\* the passage object built from one <tw-passagedata> element
PassageOfElement(el) ==
    LET tagsAttr == OrDef(GetAttr(el.attrs, " tags="), <<>>)
        position == Split(OrDef(GetAttr(el.attrs, " position="), <<"1", "0", "0", ",", "1", "0", "0">>), <<",">>)
        size == Split(OrDef(GetAttr(el.attrs, " size="), <<"1", "0", "0", ",", "1", "0", "0">>), <<",">>) IN
    [key |-> OrDef(GetAttr(el.attrs, " name="), <<"null">>),
     name |-> GetAttr(el.attrs, " name="),
     content |-> el.text,
     tags |-> IF tagsAttr # <<>> THEN FilterNonBlank(Split(tagsAttr, <<" ">>)) ELSE <<>>,
     x |-> NumOr(ParseIntOf(Part(position, 0)), Num(100)),
     y |-> NumOr(ParseIntOf(Part(position, 1)), Num(100)),
     width |-> NumOr(ParseIntOf(Part(size, 0)), Num(100)),
     height |-> NumOr(ParseIntOf(Part(size, 1)), Num(100))]

\* the passages object after the forEach over the first k elements
RECURSIVE PassagesOfElements(_, _)
PassagesOfElements(els, k) ==
    IF k = 0 THEN <<>>
    ELSE AssignPassage(PassagesOfElements(els, k - 1), PassageOfElement(els[k]))

\* startPassage after the forEach: the name of the last element whose pid is startNode
RECURSIVE StartOfElements(_, _, _)
StartOfElements(els, k, startNode) ==
    IF k = 0 THEN <<"Start">>
    ELSE IF GetAttr(els[k].attrs, " pid=") = startNode
    THEN GetAttr(els[k].attrs, " name=")
    ELSE StartOfElements(els, k - 1, startNode)

\* tagColors after the forEach over the <tw-tag> elements
RECURSIVE ColorsOfElements(_, _)
ColorsOfElements(els, k) ==
    IF k = 0 THEN <<>>
    ELSE LET name == GetAttr(els[k].attrs, " name=")
             color == GetAttr(els[k].attrs, " color=")
             before == ColorsOfElements(els, k - 1) IN
         IF OrDef(name, <<>>) # <<>> /\ OrDef(color, <<>>) # <<>>
         THEN PutColor(before, [name |-> name, color |-> color])
         ELSE before

\* parseTwine(html); fresh is what generateIFID() returns if called
parseTwine(html, fresh) ==
    LET at == IndexFrom(html, <<"<tw-storydata">>, 1) IN
    IF at = 0 THEN NoResult
    ELSE
    LET tag == ReadAttrs(html, at + 1)
        storyData == tag.attrs
        kids == IF tag.closed THEN Children(html, tag.next) ELSE <<>>
        startNode == GetAttr(storyData, " startnode=")
        zoom == IF GetAttr(storyData, " zoom=") = Undefined THEN NaN
                ELSE ParseFloat(GetAttr(storyData, " zoom="))
        pels == ByTag(kids, "<tw-passagedata")
        tels == ByTag(kids, "<tw-tag")
        passages == PassagesOfElements(pels, Len(pels)) IN
    IF ~tag.closed \/ passages = <<>> THEN NoResult
    ELSE [title |-> OrDef(GetAttr(storyData, " name="), <<"Imported Story">>),
          startPassage |-> StartOfElements(pels, Len(pels), startNode),
          passages |-> passages,
          ifid |-> OrDef(GetAttr(storyData, " ifid="), fresh),
          format |-> OrDef(GetAttr(storyData, " format="), <<>>),
          formatVersion |-> OrDef(GetAttr(storyData, " format-version="), <<>>),
          zoom |-> NumOr(zoom, Num(1)),
          tags |-> OrDef(GetAttr(storyData, " tags="), <<>>),
          stylesheet |-> SelectText(kids, "<style", <<"text/twine-css">>,
                                    <<"twine-user-stylesheet">>, <<"stylesheet">>),
          javascript |-> SelectText(kids, "<script", <<"text/twine-javascript">>,
                                    <<"twine-user-script">>, <<"script">>),
          tagColors |-> ColorsOfElements(tels, Len(tels))]

(***************************************************************************)
(* JSON.stringify(value, null, 2) and JSON.parse, over the values a story  *)
(* is made of. A value is a record with its type t and, by type, its       *)
(* string s, its number n, or its keys ks and its values vs.               *)
(***************************************************************************)
JStr(str) == [t |-> "str", s |-> str, n |-> 0, ks |-> <<>>, vs |-> <<>>]
JNum(h) == [t |-> "num", s |-> <<>>, n |-> h, ks |-> <<>>, vs |-> <<>>]
JObj(keys, vals) == [t |-> "obj", s |-> <<>>, n |-> 0, ks |-> keys, vs |-> vals]
JArr(vals) == [t |-> "arr", s |-> <<>>, n |-> 0, ks |-> <<>>, vs |-> vals]
JNull == [t |-> "null", s |-> <<>>, n |-> 0, ks |-> <<>>, vs |-> <<>>]
JUndef == [t |-> "undef", s |-> <<>>, n |-> 0, ks |-> <<>>, vs |-> <<>>]

\* a string field, undefined when the story lacks it
JStrOpt(str) == IF str = Undefined THEN JUndef ELSE JStr(str)

\* a number field, undefined when the story lacks it
JNumOpt(h) == IF h = UndefNum THEN JUndef ELSE JNum(h)

\* the value is falsy: '', 0, null, undefined
Falsy(v) ==
    \/ v.t \in {"null", "undef"}
    \/ v.t = "str" /\ v.s = <<>>
    \/ v.t = "num" /\ v.n = 0

\* obj[key]: undefined for a key the object lacks and for a value without properties
Get(v, key) ==
    LET hits == { k \in 1..Len(v.ks) : v.ks[k] = key } IN
    IF v.t # "obj" \/ hits = {} THEN JUndef ELSE v.vs[CHOOSE k \in hits : TRUE]

BACKSLASH == "\\"

\* the body of a JSON string literal: quote, backslash and newline escaped
JsonEscape(str) ==
    Concat([k \in 1..Len(str) |->
        CASE str[k] = Q -> <<BACKSLASH, Q>>
          [] str[k] = BACKSLASH -> <<BACKSLASH, BACKSLASH>>
          [] str[k] = "\n" -> <<BACKSLASH, "n">>
          [] OTHER -> <<str[k]>>])

Quoted(str) == <<Q>> \o JsonEscape(str) \o <<Q>>

\* a line break and the indentation of depth d
RECURSIVE Spaces(_)
Spaces(n) == IF n = 0 THEN <<>> ELSE <<" ">> \o Spaces(n - 1)

NewLine(d) == <<"\n">> \o Spaces(2 * d)

\* the members of an object (or the items of an array) that JSON.stringify writes:
\* an undefined member is left out, an undefined item is written as null
Written(v) ==
    IF v.t = "arr" THEN { k \in 1..Len(v.vs) : TRUE }
    ELSE { k \in 1..Len(v.vs) : v.vs[k].t # "undef" }

\* JSON.stringify(v, null, 2) at nesting depth d
RECURSIVE JsonText(_, _)
JsonText(v, d) ==
    CASE v.t = "str" -> Quoted(v.s)
      [] v.t = "num" -> NumToString(v.n)
      [] v.t \in {"null", "undef"} -> <<"null">>
      [] v.t \in {"obj", "arr"} ->
           LET ws == Written(v)
               idx == [k \in 1..Len(v.vs) |-> Cardinality({ h \in ws : h <= k })]
               nth(j) == CHOOSE k \in ws : idx[k] = j
               item(k) == (IF v.t = "obj" THEN Quoted(v.ks[k]) \o <<":", " ">> ELSE <<>>)
                              \o JsonText(v.vs[k], d + 1)
               open == IF v.t = "obj" THEN "{" ELSE "["
               close == IF v.t = "obj" THEN "}" ELSE "]" IN
           IF ws = {} THEN <<open, close>>
           ELSE <<open>> \o NewLine(d + 1)
                    \o Join([j \in 1..Cardinality(ws) |-> item(nth(j))],
                            <<",">> \o NewLine(d + 1))
                    \o NewLine(d) \o <<close>>

\* the position of the first character at or after i that is not JSON whitespace
RECURSIVE SkipWs(_, _)
SkipWs(t, i) == IF i <= Len(t) /\ IsWs(t[i]) THEN SkipWs(t, i + 1) ELSE i

JFail == [ok |-> FALSE, v |-> JUndef, next |-> 0]

JDone(v, next) == [ok |-> TRUE, v |-> v, next |-> next]

\* the body of a string literal from i on, up to its closing quote
RECURSIVE ScanString(_, _)
ScanString(t, i) ==
    IF i > Len(t) \/ t[i] = "\n" THEN JFail
    ELSE IF t[i] = Q THEN JDone(JStr(<<>>), i + 1)
    ELSE IF t[i] = BACKSLASH
    THEN IF i + 1 > Len(t) \/ t[i + 1] \notin {Q, BACKSLASH, "n"} THEN JFail
         ELSE LET rest == ScanString(t, i + 2)
                  ch == IF t[i + 1] = "n" THEN "\n" ELSE t[i + 1] IN
              IF rest.ok THEN JDone(JStr(<<ch>> \o rest.v.s), rest.next) ELSE JFail
    ELSE LET rest == ScanString(t, i + 1) IN
         IF rest.ok THEN JDone(JStr(<<t[i]>> \o rest.v.s), rest.next) ELSE JFail

\* a number literal at i: an optional "-", digits, an optional ".5"
ScanNumber(t, i) ==
    LET neg == t[i] = "-"
        from == IF neg THEN i + 1 ELSE i
        n == DigitRun(t, from)
        half == HasAt(t, <<".", "5">>, from + n)
        v == 2 * DigitsVal(t, from, from + n - 1) + (IF half THEN 1 ELSE 0) IN
    IF n = 0 THEN JFail
    ELSE JDone(JNum(IF neg THEN -v ELSE v), from + n + (IF half THEN 2 ELSE 0))

\* obj[key] = val while parsing: a repeated key keeps its place and takes the new value
PutMember(obj, key, val) ==
    IF \E k \in 1..Len(obj.ks) : obj.ks[k] = key
    THEN JObj(obj.ks, [k \in 1..Len(obj.ks) |-> IF obj.ks[k] = key THEN val ELSE obj.vs[k]])
    ELSE JObj(Append(obj.ks, key), Append(obj.vs, val))

RECURSIVE ParseValue(_, _)
RECURSIVE ParseMembers(_, _, _)
RECURSIVE ParseItems(_, _, _)

\* the JSON value that starts at or after i
ParseValue(t, i) ==
    LET j == SkipWs(t, i) IN
    IF j > Len(t) THEN JFail
    ELSE IF t[j] = "{"
    THEN LET k == SkipWs(t, j + 1) IN
         IF k <= Len(t) /\ t[k] = "}" THEN JDone(JObj(<<>>, <<>>), k + 1)
         ELSE ParseMembers(t, k, JObj(<<>>, <<>>))
    ELSE IF t[j] = "["
    THEN LET k == SkipWs(t, j + 1) IN
         IF k <= Len(t) /\ t[k] = "]" THEN JDone(JArr(<<>>), k + 1)
         ELSE ParseItems(t, k, <<>>)
    ELSE IF t[j] = Q THEN ScanString(t, j + 1)
    ELSE IF t[j] = "null" THEN JDone(JNull, j + 1)
    ELSE IF t[j] = "-" \/ IsDigit(t[j]) THEN ScanNumber(t, j)
    ELSE JFail

\* the members of an object from i on: "key": value, ... }
ParseMembers(t, i, obj) ==
    LET j == SkipWs(t, i) IN
    IF j > Len(t) \/ t[j] # Q THEN JFail
    ELSE LET key == ScanString(t, j + 1)
             c == IF key.ok THEN SkipWs(t, key.next) ELSE 0 IN
         IF ~key.ok \/ c > Len(t) \/ t[c] # ":" THEN JFail
         ELSE LET val == ParseValue(t, c + 1)
                  e == IF val.ok THEN SkipWs(t, val.next) ELSE 0 IN
              IF ~val.ok \/ e > Len(t) THEN JFail
              ELSE IF t[e] = "}" THEN JDone(PutMember(obj, key.v.s, val.v), e + 1)
              ELSE IF t[e] = "," THEN ParseMembers(t, e + 1, PutMember(obj, key.v.s, val.v))
              ELSE JFail

\* the items of an array from i on: value, ... ]
ParseItems(t, i, vals) ==
    LET val == ParseValue(t, i)
        e == IF val.ok THEN SkipWs(t, val.next) ELSE 0 IN
    IF ~val.ok \/ e > Len(t) THEN JFail
    ELSE IF t[e] = "]" THEN JDone(JArr(Append(vals, val.v)), e + 1)
    ELSE IF t[e] = "," THEN ParseItems(t, e + 1, Append(vals, val.v))
    ELSE JFail

\* JSON.parse(text): one value and nothing but whitespace after it; ok = FALSE
\* stands for the SyntaxError
JsonParse(t) ==
    LET r == ParseValue(t, 1) IN
    IF r.ok /\ SkipWs(t, r.next) > Len(t) THEN r ELSE JFail

(***************************************************************************)
(* exportAsJson and parseJson                                              *)
(***************************************************************************)
K(word) == <<word>>

\* a passage object as a JSON value
PassageJs(p) ==
    JObj(<<K("name"), K("content"), K("tags"), K("x"), K("y"), K("width"), K("height")>>,
         <<JStrOpt(p.name), JStrOpt(p.content),
           IF p.tags = Undefined THEN JUndef
           ELSE JArr([k \in 1..Len(p.tags) |-> JStr(p.tags[k])]),
           JNumOpt(p.x), JNumOpt(p.y), JNumOpt(p.width), JNumOpt(p.height)>>)

\* the story object as a JSON value, its properties in creation order
StoryJs(story) ==
    JObj(<<K("title"), K("startPassage"), K("passages"), K("ifid"), K("format"),
           K("formatVersion"), K("zoom"), K("tags"), K("stylesheet"), K("javascript"),
           K("tagColors")>>,
         <<JStrOpt(story.title), JStrOpt(story.startPassage),
           JObj(Keys(story.passages),
                [k \in 1..Len(story.passages) |-> PassageJs(story.passages[k])]),
           JStrOpt(story.ifid), JStrOpt(story.format), JStrOpt(story.formatVersion),
           JNumOpt(story.zoom), JStrOpt(story.tags), JStrOpt(story.stylesheet),
           JStrOpt(story.javascript),
           JObj([k \in 1..Len(story.tagColors) |-> story.tagColors[k].name],
                [k \in 1..Len(story.tagColors) |-> JStr(story.tagColors[k].color)])>>)

\* exportAsJson: the text handed to download()
exportAsJson(story) == JsonText(StoryJs(story), 0)

\* a parsed value where the story holds a string
StrOf(v) == IF v.t = "str" THEN v.s ELSE Undefined

\* a parsed value where the story holds a number
NumOf(v) == IF v.t = "num" THEN v.n ELSE UndefNum

\* a parsed passages object as the story holds it
PassagesOf(v) ==
    [k \in 1..Len(v.ks) |->
        LET m == v.vs[k] IN
        [key |-> v.ks[k],
         name |-> StrOf(Get(m, K("name"))),
         content |-> StrOf(Get(m, K("content"))),
         tags |-> IF Get(m, K("tags")).t = "arr"
                  THEN [j \in 1..Len(Get(m, K("tags")).vs) |-> StrOf(Get(m, K("tags")).vs[j])]
                  ELSE Undefined,
         x |-> NumOf(Get(m, K("x"))),
         y |-> NumOf(Get(m, K("y"))),
         width |-> NumOf(Get(m, K("width"))),
         height |-> NumOf(Get(m, K("height")))]]

\* a parsed tagColors object as the story holds it
ColorsOf(v) ==
    [k \in 1..Len(v.ks) |-> [name |-> v.ks[k], color |-> StrOf(v.vs[k])]]

\* v || d
OrJs(v, d) == IF Falsy(v) THEN d ELSE v

\* parseJson taking the zoom default whatever the file says
parseJson_DefaultZoom(text, fresh) ==
    LET parsed == JsonParse(text)
        data == parsed.v IN
    IF ~parsed.ok THEN NoResult
    ELSE IF data.t = "null" THEN NoResult
    ELSE IF Falsy(Get(data, K("title"))) \/ Falsy(Get(data, K("passages"))) THEN NoResult
    ELSE [title |-> StrOf(Get(data, K("title"))),
          startPassage |-> StrOf(OrJs(Get(data, K("startPassage")), JStr(<<"Start">>))),
          passages |-> PassagesOf(Get(data, K("passages"))),
          ifid |-> StrOf(OrJs(Get(data, K("ifid")), JStr(fresh))),
          format |-> StrOf(OrJs(Get(data, K("format")), JStr(<<>>))),
          formatVersion |-> StrOf(OrJs(Get(data, K("formatVersion")), JStr(<<>>))),
          zoom |-> Num(1),
          tags |-> StrOf(OrJs(Get(data, K("tags")), JStr(<<>>))),
          stylesheet |-> StrOf(OrJs(Get(data, K("stylesheet")), JStr(<<>>))),
          javascript |-> StrOf(OrJs(Get(data, K("javascript")), JStr(<<>>))),
          tagColors |-> ColorsOf(OrJs(Get(data, K("tagColors")), JObj(<<>>, <<>>)))]

\* parseJson(content); fresh is what generateIFID() returns if called
parseJson(text, fresh) ==
    LET parsed == JsonParse(text)
        data == parsed.v IN
    IF ~parsed.ok THEN NoResult
    ELSE IF data.t = "null" THEN NoResult
    ELSE IF Falsy(Get(data, K("title"))) \/ Falsy(Get(data, K("passages"))) THEN NoResult
    ELSE [title |-> StrOf(Get(data, K("title"))),
          startPassage |-> StrOf(OrJs(Get(data, K("startPassage")), JStr(<<"Start">>))),
          passages |-> PassagesOf(Get(data, K("passages"))),
          ifid |-> StrOf(OrJs(Get(data, K("ifid")), JStr(fresh))),
          format |-> StrOf(OrJs(Get(data, K("format")), JStr(<<>>))),
          formatVersion |-> StrOf(OrJs(Get(data, K("formatVersion")), JStr(<<>>))),
          zoom |-> NumOf(OrJs(Get(data, K("zoom")), JNum(Num(1)))),
          tags |-> StrOf(OrJs(Get(data, K("tags")), JStr(<<>>))),
          stylesheet |-> StrOf(OrJs(Get(data, K("stylesheet")), JStr(<<>>))),
          javascript |-> StrOf(OrJs(Get(data, K("javascript")), JStr(<<>>))),
          tagColors |-> ColorsOf(OrJs(Get(data, K("tagColors")), JObj(<<>>, <<>>)))]

(***************************************************************************)
(* generateTwee                                                            *)
(***************************************************************************)
\* the StoryData object as a JSON value
StoryDataJs(story, fresh) ==
    JObj(<<K("ifid"), K("format"), K("format-version"), K("start"), K("zoom"),
           K("tag-colors")>>,
         <<JStr(OrDef(story.ifid, fresh)),
           JStr(OrDef(story.format, <<"Harlowe">>)),
           JStr(OrDef(story.formatVersion, <<"3.3.9">>)),
           JStr(OrDef(story.startPassage, <<"Start">>)),
           JNum(OrNum(story.zoom, Num(1))),
           IF Len(story.tagColors) > 0
           THEN JObj([k \in 1..Len(story.tagColors) |-> story.tagColors[k].name],
                     [k \in 1..Len(story.tagColors) |-> JStr(story.tagColors[k].color)])
           ELSE JUndef>>)

\* the block of one passage: its header line, its content and a blank line
PassageBlock(p) ==
    LET tags == IF p.tags # Undefined /\ Len(p.tags) > 0
                THEN <<" ", "[">> \o Join(p.tags, <<" ">>) \o <<"]">>
                ELSE <<>>
        position ==
            <<"{", Q, "position", Q, ":", Q>>
                \o NumToString(MathRound(OrNum(p.x, Num(100)))) \o <<",">>
                \o NumToString(MathRound(OrNum(p.y, Num(100))))
                \o <<Q, ",", Q, "size", Q, ":", Q>>
                \o NumToString(OrNum(p.width, Num(100))) \o <<",">>
                \o NumToString(OrNum(p.height, Num(100)))
                \o <<Q, "}">> IN
    <<":", ":", " ">> \o p.name \o tags \o <<" ">> \o position \o <<"\n">>
        \o OrDef(p.content, <<>>) \o <<"\n", "\n">>

\* generateTwee(story); fresh is what generateIFID() returns if called
generateTwee(story, fresh) ==
    Trim(
        <<":", ":", " ", "StoryTitle", "\n">> \o story.title \o <<"\n", "\n">>
        \o <<":", ":", " ", "StoryData", "\n">>
            \o JsonText(StoryDataJs(story, fresh), 0) \o <<"\n", "\n">>
        \o (IF OrDef(story.stylesheet, <<>>) # <<>>
            THEN <<":", ":", " ", "UserStylesheet", " ", "[", "stylesheet", "]", "\n">>
                     \o story.stylesheet \o <<"\n", "\n">>
            ELSE <<>>)
        \o (IF OrDef(story.javascript, <<>>) # <<>>
            THEN <<":", ":", " ", "UserScript", " ", "[", "script", "]", "\n">>
                     \o story.javascript \o <<"\n", "\n">>
            ELSE <<>>)
        \o Concat([k \in 1..Len(story.passages) |-> PassageBlock(story.passages[k])]))

(***************************************************************************)
(* parseTwee                                                               *)
(***************************************************************************)
\* the position of the last character of line that is not whitespace, 0 if none
RECURSIVE LastNonWs(_, _)
LastNonWs(line, i) ==
    IF i = 0 THEN 0 ELSE IF IsWs(line[i]) THEN LastNonWs(line, i - 1) ELSE i

NoMatch == [matched |-> FALSE, name |-> <<>>, tags |-> Undefined, meta |-> Undefined]

\* \s*(\{.*\})?\s*$ from j on: a greedy brace group must end at the last character
\* that is not whitespace
MetaPart(line, j) ==
    LET a == SkipWs(line, j)
        r == LastNonWs(line, Len(line)) IN
    IF a > Len(line) THEN [matched |-> TRUE, meta |-> Undefined]
    ELSE IF line[a] = "{" /\ r > a /\ line[r] = "}"
    THEN [matched |-> TRUE, meta |-> SubSeq(line, a, r)]
    ELSE [matched |-> FALSE, meta |-> Undefined]

\* \s*(?:\[([^\]]*)\])?\s*(\{.*\})?\s*$ from p on
HeaderRest(line, p) ==
    LET a == SkipWs(line, p)
        q == IF a <= Len(line) /\ line[a] = "[" THEN IndexFrom(line, <<"]">>, a + 1) ELSE 0
        withTags == IF q = 0 THEN [matched |-> FALSE, meta |-> Undefined]
                    ELSE MetaPart(line, q + 1)
        without == MetaPart(line, a) IN
    IF withTags.matched
    THEN [matched |-> TRUE, name |-> <<>>, tags |-> SubSeq(line, a + 1, q - 1),
          meta |-> withTags.meta]
    ELSE IF without.matched
    THEN [matched |-> TRUE, name |-> <<>>, tags |-> Undefined, meta |-> without.meta]
    ELSE NoMatch

\* the lazy name group: the shortest name from position from on that lets the rest match
RECURSIVE HeaderName(_, _, _)
HeaderName(line, from, n) ==
    IF from + n - 1 > Len(line) THEN NoMatch
    ELSE LET rest == HeaderRest(line, from + n) IN
         IF rest.matched
         THEN [matched |-> TRUE, name |-> SubSeq(line, from, from + n - 1),
               tags |-> rest.tags, meta |-> rest.meta]
         ELSE HeaderName(line, from, n + 1)

\* the greedy \s* after "::" gives whitespace back until the rest matches
RECURSIVE HeaderFrom(_, _)
HeaderFrom(line, from) ==
    IF from < 3 THEN NoMatch
    ELSE LET m == HeaderName(line, from, 1) IN
         IF m.matched THEN m ELSE HeaderFrom(line, from - 1)

\* line.match(/^::\s*(.+?)\s*(?:\[([^\]]*)\])?\s*(\{.*\})?\s*$/)
HeaderMatch(line) ==
    IF ~HasAt(line, <<":", ":">>, 1) THEN NoMatch
    ELSE HeaderFrom(line, SkipWs(line, 3))

\* currentPassage = null
NoCurrent ==
    [type |-> "none", name |-> <<>>, tags |-> <<>>, x |-> 0, y |-> 0, width |-> 0,
     height |-> 0, content |-> <<>>, jsonContent |-> <<>>]

\* currentPassage = { type } for a special passage
Special(type) == [NoCurrent EXCEPT !.type = type]

\* saveCurrentPassage()
SaveCurrent(passages, cur) ==
    IF cur.type = "passage"
    THEN AssignPassage(passages,
            [key |-> cur.name, name |-> cur.name, content |-> Trim(cur.content),
             tags |-> cur.tags, x |-> cur.x, y |-> cur.y, width |-> cur.width,
             height |-> cur.height])
    ELSE passages

\* the numbers of the parts of "x,y": the defaults where a number is missing
PairOfParts(parts, d1, d2) ==
    [threw |-> FALSE,
     a |-> NumOr(ParseIntOf(Part(parts, 0)), d1),
     b |-> NumOr(ParseIntOf(Part(parts, 1)), d2)]

\* the pair a field of the header metadata ("x,y") gives; threw when the field is
\* no string (split is not a function)
MetaPair(field, d1, d2) ==
    IF Falsy(field) THEN [threw |-> FALSE, a |-> d1, b |-> d2]
    ELSE IF field.t # "str" THEN [threw |-> TRUE, a |-> d1, b |-> d2]
    ELSE PairOfParts(Split(field.s, <<",">>), d1, d2)

\* with rows of four instead of five
GridBox_RowsOfFour(passageIndex) ==
    [x |-> Num(100 + (passageIndex % 4) * 200),
     y |-> Num(100 + (passageIndex \div 4) * 150),
     width |-> Num(100),
     height |-> Num(100)]

\* the grid place of the passageIndex-th ordinary passage, and the default size
GridBox(passageIndex) ==
    [x |-> Num(100 + (passageIndex % 5) * 200),
     y |-> Num(100 + (passageIndex \div 5) * 150),
     width |-> Num(100),
     height |-> Num(100)]

\* a throw inside the try leaves what was assigned before it
BoxOfPairs(pos, size, dflt) ==
    IF pos.threw THEN dflt
    ELSE IF size.threw THEN [dflt EXCEPT !.x = pos.a, !.y = pos.b]
    ELSE [x |-> pos.a, y |-> pos.b, width |-> size.a, height |-> size.b]

\* x, y, width, height from the parsed metadata
BoxOfMetadata(parsed, dflt) ==
    IF ~parsed.ok \/ parsed.v.t = "null" THEN dflt
    ELSE BoxOfPairs(MetaPair(Get(parsed.v, K("position")), dflt.x, dflt.y),
                    MetaPair(Get(parsed.v, K("size")), dflt.width, dflt.height),
                    dflt)

\* x, y, width, height of a header: the grid place unless the metadata gives them
HeaderBox(metadataStr, passageIndex) ==
    IF metadataStr = Undefined THEN GridBox(passageIndex)
    ELSE BoxOfMetadata(JsonParse(metadataStr), GridBox(passageIndex))

\* headerMatch[2] ? headerMatch[2].split(' ').filter(t => t) : []
HeaderTags(m) ==
    IF OrDef(m.tags, <<>>) # <<>> THEN FilterNonEmpty(Split(m.tags, <<" ">>)) ELSE <<>>

\* the block a header starts: a special one by name or tag, or an ordinary passage
StartBlock(st, passageName, tags, box) ==
    IF passageName = <<"StoryTitle">> THEN [st EXCEPT !.cur = Special("title")]
    ELSE IF passageName = <<"StoryData">> THEN [st EXCEPT !.cur = Special("storydata")]
    ELSE IF \E k \in 1..Len(tags) : tags[k] = <<"stylesheet">>
    THEN [st EXCEPT !.cur = Special("stylesheet")]
    ELSE IF \E k \in 1..Len(tags) : tags[k] = <<"script">>
    THEN [st EXCEPT !.cur = Special("script")]
    ELSE [st EXCEPT
            !.cur = [type |-> "passage", name |-> passageName, tags |-> tags,
                     x |-> box.x, y |-> box.y, width |-> box.width,
                     height |-> box.height, content |-> <<>>, jsonContent |-> <<>>],
            !.passageIndex = st.passageIndex + 1]

\* the step of the loop for a header line
OnHeader(st, m) ==
    StartBlock([st EXCEPT !.passages = SaveCurrent(st.passages, st.cur)],
               Trim(m.name), HeaderTags(m), HeaderBox(m.meta, st.passageIndex))

\* the assignments from the parsed StoryData
TakeStoryData(st, data) ==
    [st EXCEPT
        !.ifid = StrOf(OrJs(Get(data, K("ifid")), JStr(st.ifid))),
        !.format = StrOf(OrJs(Get(data, K("format")), JStr(st.format))),
        !.formatVersion =
            StrOf(OrJs(Get(data, K("format-version")), JStr(st.formatVersion))),
        !.startPassage = StrOf(OrJs(Get(data, K("start")), JStr(st.startPassage))),
        !.zoom = NumOf(OrJs(Get(data, K("zoom")), JNum(st.zoom))),
        !.tagColors = IF Falsy(Get(data, K("tag-colors"))) THEN st.tagColors
                      ELSE ColorsOf(Get(data, K("tag-colors")))]

\* the try after a StoryData line: nothing is assigned when JSON.parse throws or
\* reading a property of null throws
TryStoryData(st, parsed) ==
    IF ~parsed.ok \/ parsed.v.t = "null" THEN st ELSE TakeStoryData(st, parsed.v)

\* parsing each line on its own instead of the accumulated lines
OnStoryData_EachLineAlone(st, line) ==
    TryStoryData([st EXCEPT !.cur.jsonContent = @ \o line \o <<"\n">>],
                 JsonParse(line \o <<"\n">>))

\* the step of the loop for a StoryData line: accumulate, then try to parse
OnStoryData(st, line) ==
    TryStoryData([st EXCEPT !.cur.jsonContent = @ \o line \o <<"\n">>],
                 JsonParse(st.cur.jsonContent \o line \o <<"\n">>))

\* the step of the loop for a line that is no header
OnLine(st, line) ==
    CASE st.cur.type = "title" ->
            IF Trim(line) # <<>> THEN [st EXCEPT !.title = Trim(line)] ELSE st
      [] st.cur.type = "storydata" -> OnStoryData(st, line)
      [] st.cur.type = "stylesheet" ->
            [st EXCEPT !.stylesheet = st.stylesheet \o line \o <<"\n">>]
      [] st.cur.type = "script" ->
            [st EXCEPT !.javascript = st.javascript \o line \o <<"\n">>]
      [] st.cur.type = "passage" ->
            [st EXCEPT !.cur.content =
                (IF st.cur.content # <<>> THEN st.cur.content \o <<"\n">> ELSE <<>>) \o line]
      [] OTHER -> st

\* one turn of the for loop: the line is a header, or it belongs to the current block
OnMatch(st, line, m) == IF m.matched THEN OnHeader(st, m) ELSE OnLine(st, line)

\* the for loop over the lines, from line i on; each turn's state is computed
\* before the next turn starts
RECURSIVE TweeLoop(_, _, _)
TweeLoop(lines, i, st) ==
    IF i > Len(lines) THEN st
    ELSE CHOOSE end \in { TweeLoop(lines, i + 1, next) :
                            next \in {OnMatch(st, lines[i], HeaderMatch(lines[i]))} } : TRUE

\* the variables of parseTwee before the loop
TweeStart(fresh) ==
    [passages |-> <<>>, cur |-> NoCurrent, title |-> <<"Imported Story">>,
     startPassage |-> <<"Start">>, ifid |-> fresh, format |-> <<>>,
     formatVersion |-> <<>>, zoom |-> Num(1), tagColors |-> <<>>,
     stylesheet |-> <<>>, javascript |-> <<>>, passageIndex |-> 0]

\* without "if (Object.keys(passages).length === 0) return null"
TweeResult_Always(end, passages) ==
    [title |-> end.title,
     startPassage |-> end.startPassage,
     passages |-> passages,
     ifid |-> end.ifid,
     format |-> end.format,
     formatVersion |-> end.formatVersion,
     zoom |-> end.zoom,
     tags |-> <<>>,
     stylesheet |-> Trim(end.stylesheet),
     javascript |-> Trim(end.javascript),
     tagColors |-> end.tagColors]

\* what parseTwee returns for the variables after the loop and the saved passages
TweeResult(end, passages) ==
    IF passages = <<>> THEN NoResult
    ELSE [title |-> end.title,
          startPassage |-> end.startPassage,
          passages |-> passages,
          ifid |-> end.ifid,
          format |-> end.format,
          formatVersion |-> end.formatVersion,
          zoom |-> end.zoom,
          tags |-> <<>>,
          stylesheet |-> Trim(end.stylesheet),
          javascript |-> Trim(end.javascript),
          tagColors |-> end.tagColors]

\* the last passage is saved after the loop
TweeEnd(end) == TweeResult(end, SaveCurrent(end.passages, end.cur))

\* parseTwee(content); fresh is what generateIFID() returns
parseTwee(text, fresh) ==
    TweeEnd(TweeLoop(Split(text, <<"\n">>), 1, TweeStart(fresh)))

(***************************************************************************)
(* generatePlayableHtml                                                    *)
(***************************************************************************)
\* JSON.stringify(v): no line breaks, no spaces
RECURSIVE JsonCompact(_)
JsonCompact(v) ==
    CASE v.t = "str" -> Quoted(v.s)
      [] v.t = "num" -> NumToString(v.n)
      [] v.t \in {"null", "undef"} -> <<"null">>
      [] v.t \in {"obj", "arr"} ->
           LET ws == Written(v)
               idx == [k \in 1..Len(v.vs) |-> Cardinality({ h \in ws : h <= k })]
               nth(j) == CHOOSE k \in ws : idx[k] = j
               item(k) == (IF v.t = "obj" THEN Quoted(v.ks[k]) \o <<":">> ELSE <<>>)
                              \o JsonCompact(v.vs[k]) IN
           <<IF v.t = "obj" THEN "{" ELSE "[">>
               \o Join([j \in 1..Cardinality(ws) |-> item(nth(j))], <<",">>)
               \o <<IF v.t = "obj" THEN "}" ELSE "]">>

\* generatePlayableHtml(story): the document, its fixed markup, style and player
\* script standing as single symbols around what the story contributes
generatePlayableHtml(story) ==
    LET passagesJson ==
            ReplaceChar(
                JsonCompact(JObj(Keys(story.passages),
                    [k \in 1..Len(story.passages) |-> PassageJs(story.passages[k])])),
                "</script>", <<"<", BACKSLASH, "/script>">>) IN
    <<"<!DOCTYPE html>", "<title>">> \o escapeHtml(story.title) \o <<"</title>">>
        \o <<"<script>", "const passages = ">> \o passagesJson \o <<";", "\n">>
        \o <<"const startPassage = ", Q>> \o OrDef(story.startPassage, <<"Start">>)
        \o <<Q, ";", "\n">>
        \o <<"function showPassage", "<h1>">> \o escapeHtml(story.title) \o <<"</h1>">>
        \o <<"showPassage(startPassage);", "</script>">>

(***************************************************************************)
(* validatePassageName                                                     *)
(***************************************************************************)
Reserved ==
    { <<"__proto__">>, <<"constructor">>, <<"prototype">>, <<"hasOwnProperty">>,
      <<"toString">>, <<"valueOf">> }

\* the length test with >= for >: a name of 200 characters is too long
validatePassageName_AtLimit(name) ==
    IF name = Undefined \/ name = <<>> \/ Trim(name) = <<>>
    THEN "Passage name cannot be empty"
    ELSE IF Len(name) >= 200 THEN "Passage name is too long (max 200 characters)"
    ELSE IF \E k \in 1..Len(name) : name[k] = "."
    THEN "Passage name cannot contain dots"
    ELSE IF \E k \in 1..Len(name) : name[k] \in {"[", "]", "{", "}", "#", "$", "/"}
    THEN "Passage name contains invalid characters"
    ELSE IF name \in Reserved THEN "Passage name is reserved"
    ELSE "null"

\* validatePassageName(name): the error, or "null" for a valid name
validatePassageName(name) ==
    IF name = Undefined \/ name = <<>> \/ Trim(name) = <<>>
    THEN "Passage name cannot be empty"
    ELSE IF Len(name) > 200 THEN "Passage name is too long (max 200 characters)"
    ELSE IF \E k \in 1..Len(name) : name[k] = "."
    THEN "Passage name cannot contain dots"
    ELSE IF \E k \in 1..Len(name) : name[k] \in {"[", "]", "{", "}", "#", "$", "/"}
    THEN "Passage name contains invalid characters"
    ELSE IF name \in Reserved THEN "Passage name is reserved"
    ELSE "null"

(***************************************************************************)
(* StoryRenderer.extractLinks                                              *)
(***************************************************************************)
\* the length of the run of characters other than "]" that starts at i
RECURSIVE RunNotClose(_, _)
RunNotClose(s, i) ==
    IF i > Len(s) \/ s[i] = "]" THEN 0 ELSE 1 + RunNotClose(s, i + 1)

\* the pattern with * for +: an empty run matches too
MatchLinkAt_EmptyRun(s, i) ==
    IF ~HasAt(s, <<"[", "[">>, i) THEN 0
    ELSE LET n == RunNotClose(s, i + 2) IN
         IF HasAt(s, <<"]", "]">>, i + 2 + n) THEN i + 2 + n + 2 ELSE 0

\* /\[\[([^\]]+)\]\]/ anchored at i: the position after the match, 0 for no match.
\* The class excludes "]", so the run can only end where the "]]" must begin.
MatchLinkAt(s, i) ==
    IF ~HasAt(s, <<"[", "[">>, i) THEN 0
    ELSE LET n == RunNotClose(s, i + 2) IN
         IF n >= 1 /\ HasAt(s, <<"]", "]">>, i + 2 + n) THEN i + 2 + n + 2 ELSE 0

\* the pattern without the g flag: match returns the first match and its group
RECURSIVE MatchAllLinks_NoGlobal(_, _)
MatchAllLinks_NoGlobal(s, i) ==
    IF i > Len(s) THEN <<>>
    ELSE LET e == MatchLinkAt(s, i) IN
         IF e = 0 THEN MatchAllLinks_NoGlobal(s, i + 1)
         ELSE <<SubSeq(s, i, e - 1), SubSeq(s, i + 2, e - 3)>>

\* content.match(/\[\[([^\]]+)\]\]/g): the matched substrings, leftmost first,
\* the search resuming after each match
RECURSIVE MatchAllLinks(_, _)
MatchAllLinks(s, i) ==
    IF i > Len(s) THEN <<>>
    ELSE LET e == MatchLinkAt(s, i) IN
         IF e = 0 THEN MatchAllLinks(s, i + 1)
         ELSE <<SubSeq(s, i, e - 1)>> \o MatchAllLinks(s, e)

\* the pipe branch taking element 1 of the split, as the arrow branch does
LinkTarget_FirstPipe(m) ==
    LET inner == SubSeq(m, 3, Len(m) - 2) IN
    IF Includes(inner, <<"-", ">">>)
    THEN LET parts == Split(inner, <<"-", ">">>) IN
         IF Len(parts) >= 2 THEN Ok(Trim(parts[2])) ELSE Throw
    ELSE LET parts == Split(inner, <<"|">>) IN
         IF Len(parts) >= 2 THEN Ok(Trim(parts[2])) ELSE Ok(Trim(parts[1]))

\* the callback of matches.map: the target of one matched marker
LinkTarget(m) ==
    LET inner == SubSeq(m, 3, Len(m) - 2) IN
    IF Includes(inner, <<"-", ">">>)
    THEN LET parts == Split(inner, <<"-", ">">>) IN
         IF Len(parts) >= 2 THEN Ok(Trim(parts[2])) ELSE Throw
    ELSE LET parts == Split(inner, <<"|">>) IN
         Ok(Trim(parts[Len(parts)]))

\* extractLinks(content): the targets, or a throw when a callback throws
extractLinks(c) ==
    IF c = <<>> THEN Ok(<<>>)
    ELSE LET matches == MatchAllLinks(c, 1)
             mapped == [k \in 1..Len(matches) |-> LinkTarget(matches[k])] IN
         IF \E k \in 1..Len(mapped) : mapped[k].threw THEN Throw
         ELSE Ok([k \in 1..Len(mapped) |-> mapped[k].value])

(***************************************************************************)
(* The editor's state (main app): let stories, let currentStory, the       *)
(* renderer's selection, the passage modal, and the StoryDB calls awaited. *)
(***************************************************************************)
\* a call that has not returned yet
NotReturned == [returned |-> FALSE]

\* let currentStory = null
NullStory == [null |-> TRUE]

\* this.selectedPassage = null
NullName == <<"null">>

\* the app before anything was created, imported or opened
\* initFirebase has completed: the handles are set
FirebaseReady ==
    /\ initPromise = 1
    /\ attempts = <<"fulfilled">>
    /\ firestore = TRUE
    /\ auth = TRUE
    /\ app = TRUE
    /\ callers = <<>>

EditorIdle ==
    /\ db = <<>>
    /\ stories = <<>>
    /\ currentStory = NullStory
    /\ slot = 0
    /\ selectedPassage = NullName
    /\ nodes = {}
    /\ modal = FALSE
    /\ pending = <<>>
    /\ toast = ""
    /\ clicks = 0

AppIdle == EditorIdle /\ FirebaseReady

\* no function is called on its own
NoCall ==
    /\ fn = "none"
    /\ args = <<>>
    /\ ret = NotReturned

(***************************************************************************)
(* The editor's content box and the canvas render that extracts the links  *)
(***************************************************************************)
\* what one keystroke or paste adds to the content
Pieces ==
    { <<"[", "[">>, <<"]", "]">>, <<"-", ">">>, <<"|">>, <<" ">>, <<"a">> }

NoLinks == Ok(<<>>)

InitLinks ==
    /\ content = <<>>
    /\ links = NoLinks
    /\ lpc = "edit"
    /\ typed = 0
    /\ storyObj = NoResult
    /\ file = <<>>
    /\ codec = "none"
    /\ cpc = "idle"
    /\ source = NoResult
    /\ rounds = 0
    /\ AppIdle
    /\ NoCall

\* passageContentInput: the author types one more piece
TypePiece ==
    /\ lpc = "edit"
    /\ typed < MaxPieces
    /\ \E p \in Pieces : content' = content \o p
    /\ typed' = typed + 1
    /\ UNCHANGED <<links, lpc>>
    /\ UNCHANGED codecVars
    /\ UNCHANGED appVars
    /\ UNCHANGED callVars

\* _createPassageNode / renderConnections: extractLinks(passage.content)
RenderLinks ==
    /\ lpc = "edit"
    /\ links' = extractLinks(content)
    /\ lpc' = "rendered"
    /\ UNCHANGED <<content, typed>>
    /\ UNCHANGED codecVars
    /\ UNCHANGED appVars
    /\ UNCHANGED callVars

NextLinks == TypePiece \/ RenderLinks

SpecLinks == InitLinks /\ [][NextLinks]_vars

(***************************************************************************)
(* The codecs: a story is exported by one of the generators and the file   *)
(* is read back by the parser of its format, repeatedly.                   *)
(***************************************************************************)
\* a passage as the editor holds it
Passage(name, text, tags, x) ==
    [key |-> name, name |-> name, content |-> text, tags |-> tags,
     x |-> x, y |-> Num(300), width |-> Num(100), height |-> Num(200)]

Titles == { <<"T">>, <<"T", "\"", "&", "x">> }

Contents ==
    { <<>>,
      <<"a", "<", "\n", "[", "[", "C", "]", "]">>,
      <<"x", "\n", ":", ":", "y">>,
      <<":", ":", " ", "StoryData", "\n", "{", Q, "ifid", Q, ":", Q, "IFID-2", Q, "}">> }

\* canvas coordinates: 0, 100 and 2.5
Coordinates == { Num(0), Num(100), 5 }

\* the passages after the first one
MorePassages ==
    { <<>>,
      <<Passage(<<"C">>, <<>>, <<>>, Num(250))>>,
      <<Passage(<<"StoryTitle">>, <<"z">>, <<>>, Num(250))>>,
      <<Passage(<<"C">>, <<"k">>, << <<"script">> >>, Num(250))>> }

StartNames == { <<"Start">>, <<"Gone">> }

\* a story carries an ifid, or (as one created in the editor) none
Ifids == { <<"IFID-1">>, Undefined }

\* what generateIFID() may return
FreshIfids == { <<"IFID-8">>, <<"IFID-9">> }

Stories ==
    { [title |-> title,
       startPassage |-> start,
       passages |-> <<Passage(<<"Start">>, text, << <<"t1">>, <<"t2">> >>, x)>> \o more,
       ifid |-> ifid,
       format |-> <<>>,
       formatVersion |-> <<>>,
       zoom |-> 3,
       tags |-> <<>>,
       stylesheet |-> <<"css">>,
       javascript |-> <<>>,
       tagColors |-> <<[name |-> <<"t1">>, color |-> <<"red">>]>>] :
        title \in Titles, start \in StartNames, text \in Contents,
        x \in Coordinates, more \in MorePassages, ifid \in Ifids }

InitCodec ==
    /\ storyObj \in Stories
    /\ file = <<>>
    /\ codec = "none"
    /\ cpc = "story"
    /\ source = NoResult
    /\ rounds = 0
    /\ content = <<>>
    /\ links = NoLinks
    /\ lpc = "idle"
    /\ typed = 0
    /\ AppIdle
    /\ NoCall

\* a generator ran on the story in memory and its text was handed to download()
Exported(text, by) ==
    /\ cpc \in {"story", "parsed"}
    /\ rounds < MaxRounds
    /\ file' = text
    /\ codec' = by
    /\ cpc' = "file"
    /\ source' = storyObj
    /\ UNCHANGED <<storyObj, rounds>>
    /\ UNCHANGED linkVars
    /\ UNCHANGED appVars
    /\ UNCHANGED callVars

\* exportAsTwine(story)
ExportAsTwineArchive ==
    \E fresh \in FreshIfids : Exported(generateTwineArchive(storyObj, fresh), "archive")

\* exportAsTwee(story)
ExportAsTwee ==
    \E fresh \in FreshIfids : Exported(generateTwee(storyObj, fresh), "twee")

\* exportAsJson(story)
ExportAsJson == Exported(exportAsJson(storyObj), "json")

\* exportAsHtml(story)
ExportAsHtml == Exported(generatePlayableHtml(storyObj), "html")

\* a parser ran on the file: its result, a story or no result, replaces the story
Parsed(result, by) ==
    /\ cpc = "file"
    /\ codec = by
    /\ storyObj' = result
    /\ cpc' = IF IsResult(result) THEN "parsed" ELSE "noresult"
    /\ rounds' = rounds + 1
    /\ UNCHANGED <<file, codec, source>>
    /\ UNCHANGED linkVars
    /\ UNCHANGED appVars
    /\ UNCHANGED callVars

\* parseTwine(content)
ParseTwine == \E fresh \in FreshIfids : Parsed(parseTwine(file, fresh), "archive")

\* parseTwee(content)
ParseTwee == \E fresh \in FreshIfids : Parsed(parseTwee(file, fresh), "twee")

\* parseJson(content)
ParseJson == \E fresh \in FreshIfids : Parsed(parseJson(file, fresh), "json")

NextCodec ==
    \/ ExportAsTwineArchive
    \/ ExportAsTwee
    \/ ExportAsJson
    \/ ExportAsHtml
    \/ ParseTwine
    \/ ParseTwee
    \/ ParseJson

SpecCodec == InitCodec /\ [][NextCodec]_vars

(***************************************************************************)
(* parseFile                                                               *)
(***************************************************************************)
\* String.prototype.toLowerCase, on the words of the model's alphabet that
\* have capitals
ToLowerCase(s) ==
    [k \in 1..Len(s) |->
        CASE s[k] = "JSON" -> "json"
          [] s[k] = "HTML" -> "html"
          [] s[k] = "<SCRIPT" -> "<script"
          [] s[k] = "EXPRESSION" -> "expression"
          [] OTHER -> s[k]]

\* filename.toLowerCase().split('.').pop()
Extension(filename) ==
    LET parts == Split(ToLowerCase(filename), <<".">>) IN parts[Len(parts)]

\* the auto-detection with the line format tried before the archive
DetectFormat_TweeFirst(text, fresh) ==
    IF HasAt(Trim(text), <<"{">>, 1) THEN parseJson(text, fresh)
    ELSE IF Includes(text, <<":", ":">>) THEN parseTwee(text, fresh)
    ELSE IF Includes(text, <<"<tw-storydata">>) THEN parseTwine(text, fresh)
    ELSE NoResult

\* the auto-detection parseFile falls back to for other extensions
DetectFormat(text, fresh) ==
    IF HasAt(Trim(text), <<"{">>, 1) THEN parseJson(text, fresh)
    ELSE IF Includes(text, <<"<tw-storydata">>) THEN parseTwine(text, fresh)
    ELSE IF Includes(text, <<":", ":">>) THEN parseTwee(text, fresh)
    ELSE NoResult

\* parseFile(content, filename); fresh is what generateIFID() returns if called
parseFile(text, filename, fresh) ==
    IF Extension(filename) = <<"json">> THEN parseJson(text, fresh)
    ELSE IF Extension(filename) \in { <<"twee">>, <<"tw">> } THEN parseTwee(text, fresh)
    ELSE IF Extension(filename) \in { <<"html">>, <<"htm">> } THEN parseTwine(text, fresh)
    ELSE DetectFormat(text, fresh)

(***************************************************************************)
(* The import handler's sanitization                                       *)
(***************************************************************************)
\* \w in the model's alphabet
WordChars ==
    { "a", "b", "c", "k", "x", "y", "z", "_", "css", "url", "data", "expression",
      "javascript", "behavior" } \cup { Digit[d] : d \in 1..10 }

\* the parts a sanitizing pattern is made of
Lit(w) == [t |-> "lit", w |-> w]

\* \s*
Ws == [t |-> "ws", w |-> ""]

\* ['"]?
Quote == [t |-> "quote", w |-> ""]

\* \b after a word character
Wb == [t |-> "wb", w |-> ""]

\* [\s\S]*? up to the word w
UpTo(w) == [t |-> "upto", w |-> w]

\* the position after a match of pat[k..] at i of the lower-cased text, 0 for none
RECURSIVE MatchPat(_, _, _, _)
MatchPat(low, pat, k, i) ==
    IF k > Len(pat) THEN i
    ELSE CASE pat[k].t = "lit" ->
                IF i <= Len(low) /\ low[i] = pat[k].w
                THEN MatchPat(low, pat, k + 1, i + 1) ELSE 0
           [] pat[k].t = "ws" -> MatchPat(low, pat, k + 1, SkipWs(low, i))
           [] pat[k].t = "quote" ->
                MatchPat(low, pat, k + 1,
                         IF i <= Len(low) /\ low[i] \in {"'", Q} THEN i + 1 ELSE i)
           [] pat[k].t = "wb" ->
                IF i > Len(low) \/ low[i] \notin WordChars
                THEN MatchPat(low, pat, k + 1, i) ELSE 0
           [] pat[k].t = "upto" ->
                IF IndexFrom(low, <<pat[k].w>>, i) = 0 THEN 0
                ELSE MatchPat(low, pat, k + 1, IndexFrom(low, <<pat[k].w>>, i) + 1)

\* String.prototype.replace(/pat/gi, rep) from position i on
RECURSIVE ReplaceFrom(_, _, _, _, _)
ReplaceFrom(s, low, pat, rep, i) ==
    IF i > Len(s) THEN <<>>
    ELSE IF MatchPat(low, pat, 1, i) = 0
    THEN <<s[i]>> \o ReplaceFrom(s, low, pat, rep, i + 1)
    ELSE rep \o ReplaceFrom(s, low, pat, rep, MatchPat(low, pat, 1, i))

ReplacePat(s, pat, rep) == ReplaceFrom(s, ToLowerCase(s), pat, rep, 1)

\* safeStylesheet: the seven replacements, in the handler's order
safeStylesheet(stylesheet) ==
    ReplacePat(
     ReplacePat(
      ReplacePat(
       ReplacePat(
        ReplacePat(
         ReplacePat(
          ReplacePat(OrDef(stylesheet, <<>>),
                     <<Lit("<script"), UpTo("</script>")>>, <<>>),
          <<Lit("expression"), Ws, Lit("(")>>, <<>>),
         <<Lit("javascript"), Ws, Lit(":")>>, <<>>),
        <<Lit("@import"), Wb>>, <<"/* ", "@import", " */">>),
       <<Lit("url"), Ws, Lit("("), Ws, Quote, Ws, Lit("data"), Ws, Lit(":")>>,
       <<"url", "(", "/* blocked */">>),
      <<Lit("behavior"), Ws, Lit(":")>>, <<"/* ", "behavior", ":", " */">>),
     <<Lit("-moz-binding"), Ws, Lit(":")>>, <<"/* ", "-moz-binding", ":", " */">>)

\* the names the import handler skips
reservedOnImport ==
    { <<"__proto__">>, <<"constructor">>, <<"prototype">>, <<"hasOwnProperty">>,
      <<"toString">>, <<"valueOf">> }

\* the properties every plain object inherits from Object.prototype
Inherited ==
    { <<"__proto__">>, <<"constructor">>, <<"hasOwnProperty">>, <<"isPrototypeOf">>,
      <<"propertyIsEnumerable">>, <<"toLocaleString">>, <<"toString">>, <<"valueOf">> }

\* passages[key] is truthy: an own passage, or an inherited property
Present(ps, key) == HasKey(ps, key) \/ key \in Inherited

\* safePassages: the entries whose name is neither reserved nor blank
safePassages(ps) ==
    SelectSeq(ps, LAMBDA p :
        p.key \notin reservedOnImport /\ p.key # <<>> /\ Trim(p.key) # <<>>)

\* safeStart
safeStart(startPassage, safe) ==
    IF Present(safe, startPassage) THEN startPassage ELSE safe[1].key

\* the object the import handler hands to StoryDB.create
ImportData(story, safe) ==
    [title |-> story.title,
     startPassage |-> safeStart(story.startPassage, safe),
     passages |-> safe,
     ifid |-> story.ifid,
     format |-> story.format,
     formatVersion |-> story.formatVersion,
     zoom |-> story.zoom,
     tags |-> story.tags,
     stylesheet |-> safeStylesheet(story.stylesheet),
     javascript |-> <<>>,
     tagColors |-> story.tagColors]

(***************************************************************************)
(* generatePassageName and deepClone                                       *)
(***************************************************************************)
\* the while loop of generatePassageName: `${baseName} ${i++}` until unused
RECURSIVE NumberedName(_, _, _)
NumberedName(ps, baseName, i) ==
    IF Present(ps, baseName \o <<" ">> \o NumToString(Num(i)))
    THEN NumberedName(ps, baseName, i + 1)
    ELSE baseName \o <<" ">> \o NumToString(Num(i))

\* generatePassageName(passages), baseName = 'New Passage'
generatePassageName(ps) ==
    IF Present(ps, <<"New Passage">>) THEN NumberedName(ps, <<"New Passage">>, 1)
    ELSE <<"New Passage">>

\* deepClone(passages): JSON.parse(JSON.stringify(passages))
deepClone(ps) ==
    PassagesOf(JsonParse(JsonCompact(
        JObj(Keys(ps), [k \in 1..Len(ps) |-> PassageJs(ps[k])]))).v)

(***************************************************************************)
(* closePassageEditor: the renamed passage map and the link rewrite        *)
(***************************************************************************)
\* delete passages[key]
RemoveKey(ps, key) == SelectSeq(ps, LAMBDA p : p.key # key)

\* { ...undefined }: a passage object with no property
BarePassage ==
    [key |-> Undefined, name |-> Undefined, content |-> Undefined, tags |-> Undefined,
     x |-> UndefNum, y |-> UndefNum, width |-> UndefNum, height |-> UndefNum]

\* passages[key], undefined read as a passage object with no property
PassageAt(ps, key) == IF HasKey(ps, key) THEN Lookup(ps, key) ELSE BarePassage

\* delete passages[oldName]; passages[newName] = { ...passage, name: newName, content }
MovePassage(clone, oldName, newName, text) ==
    PutPassage(RemoveKey(clone, oldName),
               [PassageAt(clone, oldName) EXCEPT
                    !.key = newName, !.name = newName, !.content = text])

\* the length of the run of characters from i on that are not in stop
RECURSIVE RunNotIn(_, _, _)
RunNotIn(s, stop, i) ==
    IF i > Len(s) \/ s[i] \in stop THEN 0 ELSE 1 + RunNotIn(s, stop, i + 1)

\* no match at this position
NoLink == [end |-> 0, display |-> <<>>, target |-> <<>>]

\* the groups of a two-part match whose inner text is inner and whose first
\* separator is at j (0: the pattern does not match)
TwoPartGroups(inner, sep, j, end) ==
    IF j = 0 THEN NoLink
    ELSE [end |-> end,
          display |-> SubSeq(inner, 1, j - 1),
          target |-> SubSeq(inner, j + Len(sep), Len(inner))]

\* /\[\[([^\]]*?)SEP([^\]]*?)\]\]/ anchored at i, SEP being "|" or "->": both
\* groups are lazy and exclude "]", so the marker ends at the first "]" and the
\* display ends at the first separator
TwoPartAt(s, sep, i, n) ==
    IF ~HasAt(s, <<"[", "[">>, i) \/ ~HasAt(s, <<"]", "]">>, i + 2 + n) THEN NoLink
    ELSE TwoPartGroups(SubSeq(s, i + 2, i + 1 + n), sep,
                       IndexFrom(SubSeq(s, i + 2, i + 1 + n), sep, 1), i + n + 4)

\* the callback of the first two replacements
TwoPartReplacement(s, sep, oldName, newName, i, m) ==
    IF Trim(m.target) = oldName
    THEN <<"[", "[">> \o m.display \o sep \o newName \o <<"]", "]">>
    ELSE SubSeq(s, i, m.end - 1)

\* content.replace(/\[\[([^\]]*?)SEP([^\]]*?)\]\]/g, callback) from i on
RECURSIVE RewriteTwoPart(_, _, _, _, _)
RewriteTwoPart(s, sep, oldName, newName, i) ==
    IF i > Len(s) THEN <<>>
    ELSE IF TwoPartAt(s, sep, i, RunNotClose(s, i + 2)).end = 0
    THEN <<s[i]>> \o RewriteTwoPart(s, sep, oldName, newName, i + 1)
    ELSE TwoPartReplacement(s, sep, oldName, newName, i,
                            TwoPartAt(s, sep, i, RunNotClose(s, i + 2)))
            \o RewriteTwoPart(s, sep, oldName, newName,
                              TwoPartAt(s, sep, i, RunNotClose(s, i + 2)).end)

\* /\[\[([^\]|>]*?)\]\]/ anchored at i: the position after the match, 0 for none
BareAt(s, i, n) ==
    IF HasAt(s, <<"[", "[">>, i) /\ HasAt(s, <<"]", "]">>, i + 2 + n)
    THEN i + n + 4 ELSE 0

\* content.replace(/\[\[([^\]|>]*?)\]\]/g, callback) from i on
RECURSIVE RewriteBare(_, _, _, _)
RewriteBare(s, oldName, newName, i) ==
    IF i > Len(s) THEN <<>>
    ELSE IF BareAt(s, i, RunNotIn(s, {"]", "|", ">"}, i + 2)) = 0
    THEN <<s[i]>> \o RewriteBare(s, oldName, newName, i + 1)
    ELSE (IF Trim(SubSeq(s, i + 2, BareAt(s, i, RunNotIn(s, {"]", "|", ">"}, i + 2)) - 3))
                = oldName
          THEN <<"[", "[">> \o newName \o <<"]", "]">>
          ELSE SubSeq(s, i, BareAt(s, i, RunNotIn(s, {"]", "|", ">"}, i + 2)) - 1))
            \o RewriteBare(s, oldName, newName,
                           BareAt(s, i, RunNotIn(s, {"]", "|", ">"}, i + 2)))

\* the three replacements applied to one passage's content
RewriteContent(text, oldName, newName) ==
    RewriteBare(
        RewriteTwoPart(
            RewriteTwoPart(text, <<"|">>, oldName, newName, 1),
            <<"-", ">">>, oldName, newName, 1),
        oldName, newName, 1)

\* Object.values(passages).forEach: every passage but the renamed one, if it has
\* content, gets its links rewritten
RewriteLinks(ps, oldName, newName) ==
    [k \in 1..Len(ps) |->
        IF ps[k].name = newName \/ ps[k].content \in { Undefined, <<>> } THEN ps[k]
        ELSE [ps[k] EXCEPT !.content = RewriteContent(@, oldName, newName)]]

\* the passages closePassageEditor hands to StoryDB.setPassages
RenamedPassages(ps, oldName, newName, text) ==
    RewriteLinks(MovePassage(deepClone(ps), oldName, newName, text), oldName, newName)

\* without "if (startPassage === oldName) startPassage = newName"
RenamedStart_Kept(startPassage, oldName, newName) == startPassage

\* let startPassage = currentStory.startPassage; if (=== oldName) ... = newName
RenamedStart(startPassage, oldName, newName) ==
    IF startPassage = oldName THEN newName ELSE startPassage

(***************************************************************************)
(* StoryDB: the stories collection. Every write stamps updatedAt, and      *)
(* getAll() orders by it, so the collection is held newest write first.    *)
(***************************************************************************)
\* AuthService.getCurrentUserId()
Uid == <<"me">>

\* isOwner(story)
isOwner(story) == story # NullStory /\ story.ownerId = Uid

\* the document with this id exists
HasDoc(id) == \E k \in 1..Len(db) : db[k].id = id

\* db.collection('stories').doc(id)
DocOf(id) == db[CHOOSE k \in 1..Len(db) : db[k].id = id]

\* the collection after a write that leaves the document as d
Stored(d) == <<d>> \o SelectSeq(db, LAMBDA e : e.id # d.id)

\* StoryDB.create(data): { ...data, ownerId: uid }, under a new id
create(data) ==
    Stored([f \in DOMAIN data \cup {"id", "ownerId"} |->
                IF f = "id" THEN Len(db) + 1
                ELSE IF f = "ownerId" THEN Uid ELSE data[f]])

\* StoryDB.get(id): { id: doc.id, ...doc.data() }
get(id) == DocOf(id)

\* StoryDB.getAll(): the user's stories ordered by updatedAt, newest first
getAll == SelectSeq(db, LAMBDA d : d.ownerId = Uid)

\* StoryDB.update(id, { [`passages.${name}`]: passage })
updatePassageField(id, passage) ==
    Stored([DocOf(id) EXCEPT !.passages = PutPassage(@, passage)])

\* StoryDB.update(id, { startPassage })
updateStartPassage(id, name) == Stored([DocOf(id) EXCEPT !.startPassage = name])

\* passages[name].content = text, the entry made if it is not there
WithContent(ps, name, text) ==
    PutPassage(ps, [PassageAt(ps, name) EXCEPT !.key = name, !.content = text])

\* StoryDB.updatePassage(storyId, passageName, { content })
updatePassage(id, name, text) ==
    Stored([DocOf(id) EXCEPT !.passages = WithContent(@, name, text)])

\* StoryDB.deletePassage(storyId, passageName, newStartPassage)
deletePassage(id, name, newStartPassage) ==
    Stored([DocOf(id) EXCEPT
                !.passages = RemoveKey(@, name),
                !.startPassage = IF newStartPassage = Undefined THEN @
                                 ELSE newStartPassage])

\* StoryDB.setPassages(storyId, passages, startPassage)
setPassages(id, ps, startPassage) ==
    Stored([DocOf(id) EXCEPT
                !.passages = ps,
                !.startPassage = IF startPassage = Undefined THEN @ ELSE startPassage])

(***************************************************************************)
(* What the author can enter                                               *)
(***************************************************************************)
\* handlers the author starts in one run
MaxClicks == 5

\* StoryDB calls awaited at one time
MaxPending == 1

\* deletePassageBtn handlers waiting at one time
MaxDeletes == 2

\* story documents in the collection
MaxDocs == 1

\* passages in one story
MaxPassages == 3

\* newStoryTitle
TitleInputs == { <<"T">>, <<" ">> }

\* passageNameInput, when the author retypes it
NameInputs == { <<>>, <<"A">>, <<" ", "Start", " ">>, <<"constructor">> }

\* passageContentInput
ContentInputs ==
    { <<>>,
      <<"[", "[", "Start", "]", "]", "[", "[", "go", "|", "Start", "]", "]",
        "[", "[", "go", "-", ">", " ", "Start", "]", "]", "[", "[", "A", "]", "]">> }

\* canvas.getCenterPosition() of the canvas after reset()
CenterPosition == [x |-> Num(320), y |-> Num(250)]

\* a story as an exporter was given it
FileStory(start, ps, stylesheet) ==
    [title |-> <<"T">>, startPassage |-> start, passages |-> ps,
     ifid |-> <<"IFID-1">>, format |-> <<>>, formatVersion |-> <<>>, zoom |-> Num(1),
     tags |-> <<>>, stylesheet |-> stylesheet, javascript |-> <<"js">>,
     tagColors |-> <<>>]

\* the files the author may pick in the import dialog: exports of this editor,
\* files of other Twine tools (where "constructor" is a passage name like any
\* other), and a text file
ImportFiles ==
    { [name |-> <<"story", ".", "JSON">>,
       text |-> exportAsJson(FileStory(<<"B">>,
                    <<Passage(<<"A">>, <<"[", "[", "B", "]", "]">>, <<>>, Num(100)),
                      Passage(<<"B">>, <<>>, <<>>, Num(250))>>,
                    <<"a", "<SCRIPT", "x", "</script>", "EXPRESSION", " ", "(",
                      "@import", " ", "url", "(", "'", "data", ":", "b">>))],
      [name |-> <<"story", ".", "twee">>,
       text |-> generateTwee(FileStory(<<"constructor">>,
                    <<Passage(<<"constructor">>, <<"a">>, <<>>, Num(100)),
                      Passage(<<"A">>, <<>>, <<>>, Num(250))>>,
                    <<>>), <<"IFID-1">>)],
      [name |-> <<"story", ".", "html">>,
       text |-> generateTwineArchive(FileStory(<<"Gone">>,
                    <<Passage(<<"A">>, <<>>, <<>>, Num(100))>>, <<>>), <<"IFID-1">>)],
      [name |-> <<"story">>,
       text |-> exportAsJson(FileStory(<<"constructor">>,
                    <<Passage(<<"constructor">>, <<"a">>, <<>>, Num(100))>>, <<>>))],
      [name |-> <<"notes", ".", "txt">>, text |-> <<"a", " ", "b">>] }

\* parseFile(event.target.result, file.name) for each file and each generateIFID()
ParsedFiles ==
    [f \in ImportFiles |->
        [fresh \in FreshIfids |-> parseFile(f.text, f.name, fresh)]]

\* the story object newStoryForm hands to StoryDB.create
NewStoryData(title) ==
    [title |-> title,
     startPassage |-> <<"Start">>,
     passages |->
        <<[key |-> <<"Start">>, name |-> <<"Start">>,
           content |-> <<"Your story begins here.", "\n", "\n", "Link to passages: ",
                         "[", "[", "Next", "]", "]">>,
           tags |-> Undefined, x |-> Num(400), y |-> Num(300),
           width |-> UndefNum, height |-> UndefNum]>>,
     ifid |-> Undefined, format |-> Undefined, formatVersion |-> Undefined,
     zoom |-> UndefNum, tags |-> Undefined, stylesheet |-> Undefined,
     javascript |-> Undefined, tagColors |-> <<>>]

\* const passage = { name, content: '', x: pos.x, y: pos.y }
NewPassage(name) ==
    [key |-> name, name |-> name, content |-> <<>>, tags |-> Undefined,
     x |-> CenterPosition.x, y |-> CenterPosition.y,
     width |-> UndefNum, height |-> UndefNum]

(***************************************************************************)
(* The editor's handlers. A handler that awaits a StoryDB call is two      *)
(* steps: the part before the await, which queues the call, and the part   *)
(* after it, taken when the call resolves (or the catch, when it rejects). *)
(* Calls resolve in the order they were made. The story menu (rename,      *)
(* duplicate and delete of a whole story) is left out: no document is ever *)
(* removed from the collection.                                            *)
(***************************************************************************)
\* the handlers leave the content box and the codecs alone
Elsewhere == UNCHANGED <<linkVars, codecVars, callVars, firebaseVars>>

\* the author starts one more handler
Click == clicks < MaxClicks /\ clicks' = clicks + 1

\* the handler reaches its await: MaxPending calls wait at one time, and
\* MaxDeletes when all of them are StoryDB.deletePassage calls
Await(call) ==
    /\ \/ Len(pending) < MaxPending
       \/ /\ call.op = "delete"
          /\ \A k \in 1..Len(pending) : pending[k].op = "delete"
          /\ Len(pending) < MaxDeletes
    /\ pending' = Append(pending, call)

\* the oldest awaited call is of this kind
Awaited(op) == pending # <<>> /\ Head(pending).op = op

\* documents in the collection, with those about to be created
Creating ==
    Len(db) + Cardinality({ k \in 1..Len(pending) : pending[k].op \in {"create", "import"} })

\* falsy values of renderer.getSelectedPassage()
NoSelection == { NullName, <<>> }

\* node.dataset.name of the nodes render() makes
NodeNames(story) ==
    IF story = NullStory THEN {}
    ELSE { story.passages[k].name : k \in 1..Len(story.passages) }

\* an assignment through currentStory: the object may also be in the stories array
Assign(story) ==
    /\ currentStory' = story
    /\ stories' = IF slot > 0 THEN [stories EXCEPT ![slot] = story] ELSE stories

\* openStory(id), the story found at position k of the stories array
Opened(list, k) ==
    /\ currentStory' = list[k]
    /\ slot' = k
    /\ selectedPassage' = NullName
    /\ nodes' = NodeNames(list[k])

\* newStoryForm submit, up to await StoryDB.create
newStoryForm(titleInput) ==
    /\ Trim(titleInput) # <<>>
    /\ Click
    /\ Creating < MaxDocs
    /\ Await([op |-> "create", data |-> NewStoryData(Trim(titleInput))])
    /\ UNCHANGED <<db, stories, currentStory, slot, selectedPassage, nodes, modal, toast>>
    /\ Elsewhere

\* newStoryForm submit, from StoryDB.create to await StoryDB.get
newStoryCreated ==
    /\ Awaited("create")
    /\ db' = create(Head(pending).data)
    /\ toast' = "Story created!"
    /\ pending' = Append(Tail(pending), [op |-> "get", id |-> Len(db) + 1])
    /\ UNCHANGED <<stories, currentStory, slot, selectedPassage, nodes, modal, clicks>>
    /\ Elsewhere

\* newStoryForm submit, after StoryDB.get: stories.unshift(story); openStory(id)
newStoryOpened ==
    /\ Awaited("get")
    /\ HasDoc(Head(pending).id)
    /\ stories' = <<get(Head(pending).id)>> \o stories
    /\ Opened(<<get(Head(pending).id)>>, 1)
    /\ pending' = Tail(pending)
    /\ UNCHANGED <<db, modal, toast, clicks>>
    /\ Elsewhere

\* reader.onload of the import form, up to await StoryDB.create
importOnload(story) ==
    /\ Click
    /\ IF story = NoResult
       THEN toast' = "Could not parse file. Check format." /\ UNCHANGED pending
       ELSE IF safePassages(story.passages) = <<>>
       THEN toast' = "No valid passages found in file" /\ UNCHANGED pending
       ELSE /\ Creating < MaxDocs
            /\ Await([op |-> "import",
                      data |-> ImportData(story, safePassages(story.passages))])
            /\ UNCHANGED toast
    /\ UNCHANGED <<db, stories, currentStory, slot, selectedPassage, nodes, modal>>
    /\ Elsewhere

\* importForm submit: the author picks a file
importForm ==
    \E f \in ImportFiles, fresh \in FreshIfids : importOnload(ParsedFiles[f][fresh])

\* reader.onload, after StoryDB.create: the toast, and loadStories() is called
importStored ==
    /\ Awaited("import")
    /\ db' = create(Head(pending).data)
    /\ toast' = "Imported successfully!"
    /\ pending' = Append(Tail(pending), [op |-> "load"])
    /\ UNCHANGED <<stories, currentStory, slot, selectedPassage, nodes, modal, clicks>>
    /\ Elsewhere

\* loadStories, after StoryDB.getAll: a new stories array of new objects
loadStories ==
    /\ Awaited("load")
    /\ stories' = getAll
    /\ slot' = 0
    /\ pending' = Tail(pending)
    /\ UNCHANGED <<db, currentStory, selectedPassage, nodes, modal, toast, clicks>>
    /\ Elsewhere

\* a story card is clicked: openStory(id)
openStory(k) ==
    /\ Click
    /\ \A j \in 1..(k - 1) : stories[j].id # stories[k].id
    /\ Opened(stories, k)
    /\ UNCHANGED <<db, stories, modal, pending, toast>>
    /\ Elsewhere

\* backBtn: closeStory(), up to the await in loadStories
closeStory ==
    /\ Click
    /\ currentStory # NullStory
    /\ currentStory' = NullStory
    /\ slot' = 0
    /\ selectedPassage' = NullName
    /\ Await([op |-> "load"])
    /\ UNCHANGED <<db, stories, nodes, modal, toast>>
    /\ Elsewhere

\* mousedown on a passage node: onPassageSelect(passage.name)
selectPassage(name) ==
    /\ Click
    /\ selectedPassage' = name
    /\ UNCHANGED <<db, stories, currentStory, slot, nodes, modal, pending, toast>>
    /\ Elsewhere

\* dblclick on a passage node: openPassageEditor(name)
openPassageEditor(name) ==
    /\ Click
    /\ currentStory # NullStory
    /\ Present(currentStory.passages, name)
    /\ selectedPassage' = name
    /\ modal' = TRUE
    /\ UNCHANGED <<db, stories, currentStory, slot, nodes, pending, toast>>
    /\ Elsewhere

\* addPassageBtn click, up to await StoryDB.update
addPassage ==
    /\ isOwner(currentStory)
    /\ Click
    /\ Len(currentStory.passages) < MaxPassages
    /\ IF validatePassageName(generatePassageName(currentStory.passages)) # "null"
       THEN /\ toast' = validatePassageName(generatePassageName(currentStory.passages))
            /\ UNCHANGED pending
       ELSE /\ Await([op |-> "add", id |-> currentStory.id,
                      passage |-> NewPassage(generatePassageName(currentStory.passages))])
            /\ UNCHANGED toast
    /\ UNCHANGED <<db, stories, currentStory, slot, selectedPassage, nodes, modal>>
    /\ Elsewhere

\* addPassageBtn click, after StoryDB.update: the local passage, render(),
\* openPassageEditor(name); a TypeError on a null currentStory goes to the catch
passageAdded ==
    /\ Awaited("add")
    /\ HasDoc(Head(pending).id)
    /\ db' = updatePassageField(Head(pending).id, Head(pending).passage)
    /\ IF currentStory = NullStory
       THEN /\ toast' = "Error adding passage"
            /\ UNCHANGED <<stories, currentStory, selectedPassage, nodes, modal>>
       ELSE /\ Assign([currentStory EXCEPT !.passages = PutPassage(@, Head(pending).passage)])
            /\ nodes' = NodeNames(currentStory')
            /\ selectedPassage' = Head(pending).passage.name
            /\ modal' = TRUE
            /\ UNCHANGED toast
    /\ pending' = Tail(pending)
    /\ UNCHANGED <<slot, clicks>>
    /\ Elsewhere

\* without the collision check: a held name is taken like a free one
closeOwned_NoCollisionCheck(oldName, newName, text) ==
    IF newName # oldName /\ validatePassageName(newName) # "null"
    THEN /\ toast' = validatePassageName(newName)
         /\ UNCHANGED <<selectedPassage, modal, pending>>
    ELSE IF newName # oldName
    THEN /\ Await([op |-> "rename", id |-> currentStory.id,
                   passages |-> RenamedPassages(currentStory.passages, oldName,
                                                newName, text),
                   startPassage |-> RenamedStart(currentStory.startPassage, oldName,
                                                 newName)])
         /\ UNCHANGED <<selectedPassage, modal, toast>>
    ELSE /\ Await([op |-> "content", id |-> currentStory.id, name |-> oldName,
                   content |-> text])
         /\ UNCHANGED <<selectedPassage, modal, toast>>

\* closePassageEditor for the owner with a selection, up to its await
closeOwned(oldName, newName, text) ==
    IF newName # oldName /\ validatePassageName(newName) # "null"
    THEN /\ toast' = validatePassageName(newName)
         /\ UNCHANGED <<selectedPassage, modal, pending>>
    ELSE IF newName # oldName /\ Present(currentStory.passages, newName)
    THEN /\ toast' = "A passage named ... already exists"
         /\ UNCHANGED <<selectedPassage, modal, pending>>
    ELSE IF newName # oldName
    THEN /\ Await([op |-> "rename", id |-> currentStory.id,
                   passages |-> RenamedPassages(currentStory.passages, oldName,
                                                newName, text),
                   startPassage |-> RenamedStart(currentStory.startPassage, oldName,
                                                 newName)])
         /\ UNCHANGED <<selectedPassage, modal, toast>>
    ELSE /\ Await([op |-> "content", id |-> currentStory.id, name |-> oldName,
                   content |-> text])
         /\ UNCHANGED <<selectedPassage, modal, toast>>

\* closePassageBtn or a click on the modal's backdrop: closePassageEditor()
closePassageEditor(nameInput, text) ==
    /\ modal
    /\ Click
    /\ IF currentStory = NullStory \/ selectedPassage \in NoSelection
       THEN modal' = FALSE /\ UNCHANGED <<selectedPassage, pending, toast>>
       ELSE IF ~isOwner(currentStory)
       THEN /\ selectedPassage' = NullName
            /\ modal' = FALSE
            /\ UNCHANGED <<pending, toast>>
       ELSE closeOwned(selectedPassage, OrStr(Trim(nameInput), selectedPassage), text)
    /\ UNCHANGED <<db, stories, currentStory, slot, nodes>>
    /\ Elsewhere

\* closePassageEditor, after StoryDB.setPassages
passageRenamed ==
    /\ Awaited("rename")
    /\ HasDoc(Head(pending).id)
    /\ db' = setPassages(Head(pending).id, Head(pending).passages,
                         Head(pending).startPassage)
    /\ IF currentStory = NullStory
       THEN /\ toast' = "Error saving passage"
            /\ UNCHANGED <<stories, currentStory, selectedPassage, nodes, modal>>
       ELSE /\ Assign([currentStory EXCEPT !.passages = Head(pending).passages,
                                           !.startPassage = Head(pending).startPassage])
            /\ selectedPassage' = NullName
            /\ modal' = FALSE
            /\ nodes' = NodeNames(currentStory')
            /\ UNCHANGED toast
    /\ pending' = Tail(pending)
    /\ UNCHANGED <<slot, clicks>>
    /\ Elsewhere

\* currentStory.passages[name].content = text
SetContent(story, name, text) ==
    IF HasKey(story.passages, name)
    THEN [story EXCEPT !.passages = WithContent(@, name, text)]
    ELSE story

\* closePassageEditor, after StoryDB.updatePassage
contentSaved ==
    /\ Awaited("content")
    /\ HasDoc(Head(pending).id)
    /\ db' = updatePassage(Head(pending).id, Head(pending).name, Head(pending).content)
    /\ IF currentStory = NullStory \/ ~Present(currentStory.passages, Head(pending).name)
       THEN /\ toast' = "Error saving passage"
            /\ UNCHANGED <<stories, currentStory, selectedPassage, nodes, modal>>
       ELSE /\ Assign(SetContent(currentStory, Head(pending).name, Head(pending).content))
            /\ selectedPassage' = NullName
            /\ modal' = FALSE
            /\ nodes' = NodeNames(currentStory')
            /\ UNCHANGED toast
    /\ pending' = Tail(pending)
    /\ UNCHANGED <<slot, clicks>>
    /\ Elsewhere

\* previewPassageBtn click, up to await StoryDB.updatePassage
previewPassage(text) ==
    /\ modal
    /\ Click
    /\ selectedPassage \notin NoSelection
    /\ currentStory # NullStory
    /\ IF Present(currentStory.passages, selectedPassage)
       THEN /\ Assign(SetContent(currentStory, selectedPassage, text))
            /\ IF isOwner(currentStory)
               THEN /\ Await([op |-> "preview", id |-> currentStory.id,
                              name |-> selectedPassage, content |-> text])
                    /\ UNCHANGED modal
               ELSE modal' = FALSE /\ UNCHANGED pending
       ELSE modal' = FALSE /\ UNCHANGED <<stories, currentStory, pending>>
    /\ UNCHANGED <<db, slot, selectedPassage, nodes, toast>>
    /\ Elsewhere

\* previewPassageBtn click, after StoryDB.updatePassage: the modal gives way to play
previewSaved ==
    /\ Awaited("preview")
    /\ HasDoc(Head(pending).id)
    /\ db' = updatePassage(Head(pending).id, Head(pending).name, Head(pending).content)
    /\ modal' = FALSE
    /\ pending' = Tail(pending)
    /\ UNCHANGED <<stories, currentStory, slot, selectedPassage, nodes, toast, clicks>>
    /\ Elsewhere

\* setStartPassageBtn click, up to await StoryDB.update
setStartPassage ==
    /\ modal
    /\ isOwner(currentStory)
    /\ selectedPassage \notin NoSelection
    /\ Click
    /\ Await([op |-> "start", id |-> currentStory.id, name |-> selectedPassage])
    /\ UNCHANGED <<db, stories, currentStory, slot, selectedPassage, nodes, modal, toast>>
    /\ Elsewhere

\* setStartPassageBtn click, after StoryDB.update
startPassageSet ==
    /\ Awaited("start")
    /\ HasDoc(Head(pending).id)
    /\ db' = updateStartPassage(Head(pending).id, Head(pending).name)
    /\ IF currentStory = NullStory
       THEN /\ toast' = "Error setting start passage"
            /\ UNCHANGED <<stories, currentStory, nodes>>
       ELSE /\ Assign([currentStory EXCEPT !.startPassage = Head(pending).name])
            /\ toast' = "Start passage set"
            /\ nodes' = NodeNames(currentStory')
    /\ pending' = Tail(pending)
    /\ UNCHANGED <<slot, selectedPassage, modal, clicks>>
    /\ Elsewhere

\* Object.keys(currentStory.passages)[0]: the first key, the deleted one or not
FirstOther_First(ps, name) == IF ps = <<>> THEN Undefined ELSE ps[1].key

\* Object.keys(currentStory.passages).find(n => n !== selectedPassage)
FirstOther(ps, name) ==
    IF RemoveKey(ps, name) = <<>> THEN Undefined ELSE RemoveKey(ps, name)[1].key

\* deletePassageBtn click, up to await StoryDB.deletePassage; confirmed is the
\* author's answer to confirm()
deletePassageBtn(confirmed) ==
    /\ modal
    /\ isOwner(currentStory)
    /\ selectedPassage \notin NoSelection
    /\ Click
    /\ IF Len(currentStory.passages) <= 1
       THEN toast' = "Cannot delete the only passage" /\ UNCHANGED pending
       ELSE IF ~confirmed THEN UNCHANGED <<toast, pending>>
       ELSE /\ Await([op |-> "delete", id |-> currentStory.id, name |-> selectedPassage,
                      newStart |-> IF currentStory.startPassage = selectedPassage
                                   THEN FirstOther(currentStory.passages, selectedPassage)
                                   ELSE Undefined])
            /\ UNCHANGED toast
    /\ UNCHANGED <<db, stories, currentStory, slot, selectedPassage, nodes, modal>>
    /\ Elsewhere

\* deletePassageBtn click, after StoryDB.deletePassage
passageDeleted ==
    /\ Awaited("delete")
    /\ HasDoc(Head(pending).id)
    /\ db' = deletePassage(Head(pending).id, Head(pending).name, Head(pending).newStart)
    /\ IF currentStory = NullStory
       THEN /\ toast' = "Error deleting passage"
            /\ UNCHANGED <<stories, currentStory, selectedPassage, nodes, modal>>
       ELSE /\ Assign([currentStory EXCEPT
                           !.passages = RemoveKey(@, Head(pending).name),
                           !.startPassage = IF Head(pending).newStart = Undefined THEN @
                                            ELSE Head(pending).newStart])
            /\ selectedPassage' = NullName
            /\ modal' = FALSE
            /\ nodes' = NodeNames(currentStory')
            /\ toast' = "Deleted"
    /\ pending' = Tail(pending)
    /\ UNCHANGED <<slot, clicks>>
    /\ Elsewhere

\* what the catch of the handler that awaits this call shows
CatchToast(op) ==
    CASE op \in {"create", "get"} -> "Error creating story"
      [] op = "import" -> "Import error"
      [] op = "load" -> toast
      [] op = "add" -> "Error adding passage"
      [] op \in {"rename", "content"} -> "Error saving passage"
      [] op = "preview" -> "Error saving passage before preview"
      [] op = "start" -> "Error setting start passage"
      [] op = "delete" -> "Error deleting passage"

\* the local passage written before the await instead of after it: a rejected
\* add leaves it in the open story
rejected_LocalFirst ==
    /\ pending # <<>>
    /\ toast' = CatchToast(Head(pending).op)
    /\ modal' = IF Head(pending).op = "preview" THEN FALSE ELSE modal
    /\ pending' = Tail(pending)
    /\ IF Head(pending).op = "add" /\ currentStory # NullStory
       THEN Assign([currentStory EXCEPT !.passages = PutPassage(@, Head(pending).passage)])
       ELSE UNCHANGED <<stories, currentStory>>
    /\ UNCHANGED <<db, slot, selectedPassage, nodes, clicks>>
    /\ Elsewhere

\* the oldest awaited call rejects: the handler's catch runs, nothing is stored
rejected ==
    /\ pending # <<>>
    /\ toast' = CatchToast(Head(pending).op)
    /\ modal' = IF Head(pending).op = "preview" THEN FALSE ELSE modal
    /\ pending' = Tail(pending)
    /\ UNCHANGED <<db, stories, currentStory, slot, selectedPassage, nodes, clicks>>
    /\ Elsewhere

InitApp ==
    /\ AppIdle
    /\ NoCall
    /\ content = <<>>
    /\ links = NoLinks
    /\ lpc = "idle"
    /\ typed = 0
    /\ storyObj = NoResult
    /\ file = <<>>
    /\ codec = "none"
    /\ cpc = "idle"
    /\ source = NoResult
    /\ rounds = 0

NextApp ==
    \/ \E titleInput \in TitleInputs : newStoryForm(titleInput)
    \/ newStoryCreated
    \/ newStoryOpened
    \/ importForm
    \/ importStored
    \/ loadStories
    \/ \E k \in 1..Len(stories) : openStory(k)
    \/ closeStory
    \/ \E name \in nodes : selectPassage(name)
    \/ \E name \in nodes : openPassageEditor(name)
    \/ addPassage
    \/ passageAdded
    \/ \E nameInput \in NameInputs \cup {selectedPassage}, text \in ContentInputs :
          closePassageEditor(nameInput, text)
    \/ passageRenamed
    \/ contentSaved
    \/ \E text \in ContentInputs : previewPassage(text)
    \/ previewSaved
    \/ setStartPassage
    \/ startPassageSet
    \/ \E confirmed \in BOOLEAN : deletePassageBtn(confirmed)
    \/ passageDeleted
    \/ rejected

SpecApp == InitApp /\ [][NextApp]_vars

(***************************************************************************)
(* Functions called on their own: the argument is drawn, the function is   *)
(* applied to it, and what it returned is kept next to the argument.       *)
(***************************************************************************)
\* characters of the names tried in full
MaxNameLen == 2

\* name.length > 200
NameLimit == 200

\* the characters short names are made of
NameChars == { "a", "2", " ", "\n", ".", "[", "]", "{", "}", "#", "$", "/" }

\* a name of n characters
LongName(n) == [k \in 1..n |-> "a"]

\* the names handed to validatePassageName
NamesToValidate ==
    UNION { [1..n -> NameChars] : n \in 0..MaxNameLen }
        \cup Reserved
        \cup { LongName(NameLimit), LongName(NameLimit + 1),
               <<"C", "a", "v", "e", " ", "2">>, <<" ", "constructor">>,
               <<"Constructor">>, LongName(NameLimit) \o <<".">> }

\* the state of the other parts while a function is called on its own
OnlyCalls ==
    /\ AppIdle
    /\ content = <<>>
    /\ links = NoLinks
    /\ lpc = "idle"
    /\ typed = 0
    /\ storyObj = NoResult
    /\ file = <<>>
    /\ codec = "none"
    /\ cpc = "idle"
    /\ source = NoResult
    /\ rounds = 0

\* the function returns
Returns(f, value) ==
    /\ fn = f
    /\ ret = NotReturned
    /\ ret' = [returned |-> TRUE, value |-> value]
    /\ UNCHANGED <<fn, args>>
    /\ UNCHANGED <<linkVars, codecVars, appVars>>

\* the call has returned
Returned(f) == fn = f /\ ret # NotReturned

InitValidate ==
    /\ OnlyCalls
    /\ fn = "validatePassageName"
    /\ args \in NamesToValidate
    /\ ret = NotReturned

\* validatePassageName(name)
CallValidatePassageName == Returns("validatePassageName", validatePassageName(args))

NextValidate == CallValidatePassageName

SpecValidate == InitValidate /\ [][NextValidate]_vars

(***************************************************************************)
(* closePassageEditor's renaming, called on its own: a story of two        *)
(* passages, "Start" and "B", where "B" holds one pair of brackets with    *)
(* pieces between them, and "Start" is renamed with its content as it was. *)
(***************************************************************************)
\* pieces between the outer brackets
MaxInner == 4

\* what the author may have typed between the brackets
InnerPieces == Pieces \cup { <<"Start">> }

\* the contents of passage "B": up to max pieces between the brackets
BracketedContents(max) ==
    { <<"[", "[">> \o Concat(inner) \o <<"]", "]">> :
        inner \in UNION { [1..n -> InnerPieces] : n \in 0..max } }

\* passageNameInput, trimmed: names validatePassageName accepts
NewNames == { <<"A">>, <<"A", "|", "C">>, <<"A", "-", ">", "C">> }

\* the arguments of one renaming
Renamings(max) ==
    { [passages |-> <<Passage(<<"Start">>, <<"a">>, <<>>, Num(100)),
                      Passage(<<"B">>, c, <<>>, Num(250))>>,
       startPassage |-> <<"Start">>,
       oldName |-> <<"Start">>,
       newName |-> n,
       content |-> <<"a">>] : c \in BracketedContents(max), n \in NewNames }

InitRename ==
    /\ OnlyCalls
    /\ fn = "closePassageEditor"
    /\ args \in Renamings(MaxInner)
    /\ ret = NotReturned

\* closePassageEditor from deepClone to the arguments of StoryDB.setPassages
CallRename ==
    /\ validatePassageName(args.newName) = "null"
    /\ ~Present(args.passages, args.newName)
    /\ Returns("closePassageEditor",
               [passages |-> RenamedPassages(args.passages, args.oldName, args.newName,
                                             args.content),
                startPassage |-> RenamedStart(args.startPassage, args.oldName,
                                              args.newName)])

NextRename == CallRename

SpecRename == InitRename /\ [][NextRename]_vars

(***************************************************************************)
(* The parsers and parseFile, called on their own with the text of a file  *)
(* (and its name, for parseFile).                                          *)
(***************************************************************************)
\* lines of a line-format document
MaxLines == 3

\* lines a line-format document is made of: headers of each kind, and lines
\* that are no header
TweeLines ==
    { <<":", ":", " ", "StoryTitle">>,
      <<":", ":", " ", "StoryData">>,
      <<":", ":", " ", "A">>,
      <<":", ":", " ", "S", " ", "[", "stylesheet", "]">>,
      <<":", ":", " ", "J", " ", "[", "script", "]">>,
      <<":", ":", " ", "__proto__">>,
      <<"x">>,
      <<" ", "T", " ">>,
      <<>>,
      <<"{", Q, "start", Q, ":", Q, "A", Q, "}">> }

\* the documents of up to max lines
TweeTexts(max) ==
    { Join(ls, <<"\n">>) : ls \in UNION { [1..n -> TweeLines] : n \in 0..max } }

\* headers of a line-format document made of headers only
MaxHeaders == 6

\* the k-th header of such a document: an ordinary one named by its place, one
\* with a size and no position, one with a position, or a StoryTitle header
GridHeader(kind, k) ==
    CASE kind = "plain" -> <<":", ":", " ">> \o NatDigits(k)
      [] kind = "sized" ->
            <<":", ":", " ">> \o NatDigits(k)
                \o <<" ", "{", Q, "size", Q, ":", Q, "3", ",", "4", Q, "}">>
      [] kind = "placed" ->
            <<":", ":", " ">> \o NatDigits(k)
                \o <<" ", "{", Q, "position", Q, ":", Q, "7", ",", "9", Q, "}">>
      [] OTHER -> <<":", ":", " ", "StoryTitle">>

GridKinds == { "plain", "sized", "placed", "title" }

\* the documents of up to max headers
GridTexts(max) ==
    { Join([k \in 1..Len(kinds) |-> GridHeader(kinds[k], k)], <<"\n">>) :
        kinds \in UNION { [1..n -> GridKinds] : n \in 1..max } }

\* lines that follow the story metadata before the next header
MaxTail == 2

\* the properties a StoryData object has, in the order generateTwee writes them
StoryDataKeys == <<"ifid", "format", "format-version", "start", "zoom", "tag-colors">>

\* the value the sample object has for each property
SampleValue(key) ==
    CASE key = "ifid" -> JStr(<<"IFID-2">>)
      [] key = "format" -> JStr(<<"SugarCube">>)
      [] key = "format-version" -> JStr(<<"2", ".", "1">>)
      [] key = "start" -> JStr(<<"A">>)
      [] key = "zoom" -> JNum(Num(2))
      [] OTHER -> JObj(<< <<"t">> >>, << JStr(<<"red">>) >>)

\* the sample object with the properties of has
StoryDataObject(has) ==
    LET keys == SelectSeq(StoryDataKeys, LAMBDA key : key \in has) IN
    JObj([k \in 1..Len(keys) |-> K(keys[k])],
         [k \in 1..Len(keys) |-> SampleValue(keys[k])])

\* which properties the StoryData objects of the documents have
SampleProperties ==
    { {"ifid", "format", "format-version", "start", "zoom", "tag-colors"},
      {"start", "zoom"},
      {"ifid", "tag-colors"} }

\* lines that may follow the object: blank, text, an object on one line
TailLines ==
    { <<>>, <<"x">>, <<"{", Q, "start", Q, ":", Q, "Z", Q, "}">> }

\* a document with a StoryData block (the object pretty-printed, then the lines
\* of tail) and a passage after it, and with a passage before it when lead holds
StoryDataText(has, tail, lead) ==
    (IF lead THEN <<":", ":", " ", "B", "\n", "y", "\n">> ELSE <<>>)
        \o <<":", ":", " ", "StoryData", "\n">>
        \o JsonText(StoryDataObject(has), 0)
        \o Concat([k \in 1..Len(tail) |-> <<"\n">> \o tail[k]])
        \o <<"\n", ":", ":", " ", "A", "\n", "x">>

\* the documents with a StoryData block, each with what it was made of
StoryDataDocs ==
    { [text |-> StoryDataText(has, tail, lead), has |-> has, tail |-> tail] :
        has \in SampleProperties,
        tail \in UNION { [1..n -> TailLines] : n \in 0..MaxTail },
        lead \in BOOLEAN }

\* tokens of a position or size attribute: zero, a positive and a negative whole
\* number, a word, nothing
CoordTokens == { <<"0">>, <<"7">>, <<"-", "3">>, <<"a">>, <<>> }

\* values of a position or size attribute: two tokens, one token, or no attribute
CoordAttrs ==
    { a \o <<",">> \o b : a \in CoordTokens, b \in CoordTokens }
        \cup CoordTokens \cup { Undefined }

\* an archive of one passage with these position and size attributes
CoordArchive(position, size) ==
    <<"<tw-storydata">> \o Attr(" name=", <<"T">>) \o Attr(" startnode=", <<"1">>)
        \o <<">", "<tw-passagedata">> \o Attr(" pid=", <<"1">>) \o Attr(" name=", <<"A">>)
        \o (IF position = Undefined THEN <<>> ELSE Attr(" position=", position))
        \o (IF size = Undefined THEN <<>> ELSE Attr(" size=", size))
        \o <<">", "x", "</tw-passagedata>", "</tw-storydata>">>

\* the archives, each with the attributes it was made of
CoordDocs ==
    { [text |-> CoordArchive(position, size), position |-> position, size |-> size] :
        position \in CoordAttrs, size \in CoordAttrs }

\* a passage whose content looks like the other formats
Tricky == Passage(<<"A">>, <<"{", "a", ":", ":">>, <<>>, Num(100))

\* a story object whose passage content holds the container tag and "::"
TrickyJson ==
    <<"{", Q, "title", Q, ":", Q, "T", Q, ",", Q, "passages", Q, ":",
      "{", Q, "A", Q, ":", "{", Q, "name", Q, ":", Q, "A", Q, ",",
      Q, "content", Q, ":", Q, "<tw-storydata", ">", ":", ":", Q, "}", "}", "}">>

\* texts handed to JSON.parse: no JSON, JSON of every kind, and story objects
\* with and without title and passages
JsonTexts ==
    { <<"a", " ", "b">>,
      <<"{">>,
      <<"null">>,
      <<"1">>,
      <<Q, "T", Q>>,
      <<"[", "]">>,
      <<"{", "}">>,
      <<"{", Q, "title", Q, ":", Q, "T", Q, "}">>,
      <<"{", Q, "passages", Q, ":", "{", Q, "A", Q, ":", "{", "}", "}", "}">>,
      <<"{", Q, "title", Q, ":", Q, Q, ",", Q, "passages", Q, ":",
        "{", Q, "A", Q, ":", "{", "}", "}", "}">>,
      <<"{", Q, "title", Q, ":", Q, "T", Q, ",", Q, "passages", Q, ":",
        "{", Q, "A", Q, ":", "{", "}", "}", "}">>,
      <<" ", "\n">> \o TrickyJson }

\* archives with and without passages, and texts without the container
TwineTexts ==
    { <<"a", " ", "b">>,
      <<>>,
      <<"<tw-passagedata">>,
      generateTwineArchive(FileStory(<<"A">>, <<>>, <<>>), <<"IFID-1">>),
      generateTwineArchive(FileStory(<<"A">>, <<Tricky>>, <<>>), <<"IFID-1">>) }

\* the texts of the files the author picks
FileTexts ==
    { <<"a", " ", "b">>,
      <<":", ":", " ", "A", "\n", "x">>,
      <<"{", "\n", ":", ":", " ", "A", "\n", "x">>,
      <<":", ":", " ", "A", "\n", "<tw-storydata">>,
      <<"{", Q, "title", Q, ":", Q, "T", Q, ",", Q, "passages", Q, ":",
        "{", Q, "A", Q, ":", "{", "}", "}", "}">>,
      <<" ", "\n">> \o TrickyJson,
      generateTwineArchive(FileStory(<<"A">>, <<Tricky>>, <<>>), <<"IFID-1">>),
      <<"a", "\n">>
          \o generateTwineArchive(FileStory(<<"A">>, <<Tricky>>, <<>>), <<"IFID-1">>) }

\* their names
FileNames ==
    { <<"story", ".", "json">>, <<"story", ".", "JSON">>, <<"story", ".", "twee">>,
      <<"story", ".", "tw">>, <<"story", ".", "html">>, <<"story", ".", "htm">>,
      <<"story", ".", "txt">>, <<"story">>, <<"story", ".", "json", ".", "txt">> }

\* the calls of the three parsers: the function and the text
ParserCalls(max) ==
    [fn : {"parseTwee"}, content : TweeTexts(max), filename : {<<>>}]
        \cup [fn : {"parseJson"}, content : JsonTexts, filename : {<<>>}]
        \cup [fn : {"parseTwine"}, content : TwineTexts, filename : {<<>>}]

\* the calls of parseFile: the text and the file name
FileCalls == [fn : {"parseFile"}, content : FileTexts, filename : FileNames]

\* what generateIFID() returns when a parser calls it
FreshIfid == <<"IFID-9">>

InitParse ==
    /\ OnlyCalls
    /\ \E call \in ParserCalls(MaxLines)
                    \cup [fn : {"parseTwee"}, content : GridTexts(MaxHeaders),
                          filename : {<<>>}]
                    \cup [fn : {"parseTwee"},
                          content : { doc.text : doc \in StoryDataDocs },
                          filename : {<<>>}]
                    \cup [fn : {"parseTwine"},
                          content : { doc.text : doc \in CoordDocs },
                          filename : {<<>>}] :
          /\ fn = call.fn
          /\ args = [content |-> call.content, filename |-> call.filename]
    /\ ret = NotReturned

CallParseTwee == Returns("parseTwee", parseTwee(args.content, FreshIfid))

CallParseJson == Returns("parseJson", parseJson(args.content, FreshIfid))

CallParseTwine == Returns("parseTwine", parseTwine(args.content, FreshIfid))

NextParse ==
    \/ CallParseTwee
    \/ CallParseJson
    \/ CallParseTwine

SpecParse == InitParse /\ [][NextParse]_vars

InitParseFile ==
    /\ OnlyCalls
    /\ \E call \in FileCalls :
          /\ fn = call.fn
          /\ args = [content |-> call.content, filename |-> call.filename]
    /\ ret = NotReturned

CallParseFile == Returns("parseFile", parseFile(args.content, args.filename, FreshIfid))

NextParseFile == CallParseFile

SpecParseFile == InitParseFile /\ [][NextParseFile]_vars

(***************************************************************************)
(* The generators, called on their own with a story                        *)
(***************************************************************************)
\* passages of a story handed to a generator
MaxStoryPassages == 3

\* names the passages are drawn from
PassageNames == <<"A", "B", "C", "D", "E">>

\* the passages objects of up to max passages with distinct names, each
\* passage linking to "A" and to a passage that does not exist
PassageRows(max) ==
    { [k \in 1..Len(order) |->
          Passage(<<PassageNames[order[k]]>>,
                  <<"[", "[", "A", "]", "]", " ", "[", "[", "Z", "]", "]">>,
                  <<>>, Num(100 * k))] :
        order \in { o \in UNION { [1..m -> 1..max] : m \in 0..max } :
                      \A i, j \in 1..Len(o) : i # j => o[i] # o[j] } }

\* the stories: the start passage is one of the names or names no passage,
\* the ifid is there or missing
GivenStories(max) ==
    { [title |-> <<"T">>,
       startPassage |-> start,
       passages |-> ps,
       ifid |-> ifid,
       format |-> <<>>,
       formatVersion |-> <<>>,
       zoom |-> Num(1),
       tags |-> <<>>,
       stylesheet |-> <<>>,
       javascript |-> <<>>,
       tagColors |-> <<[name |-> <<"t1">>, color |-> <<"red">>]>>] :
        start \in { <<PassageNames[k]>> : k \in 1..max } \cup { <<"Gone">> },
        ps \in PassageRows(max),
        ifid \in Ifids }

Generators == { "generateTwineArchive", "generateTwee", "generatePlayableHtml", "exportAsJson" }

InitGenerate ==
    /\ OnlyCalls
    /\ fn \in Generators
    /\ \E story \in GivenStories(MaxStoryPassages) : args = [story |-> story]
    /\ ret = NotReturned

\* the Story a generator was given, after the generator ran: the generators
\* read story.title, story.passages and the other fields and assign to none
\* of them, nor to a passage
ArgumentAfter_IfidFilled(story) == [story EXCEPT !.ifid = OrDef(@, FreshIfid)]

ArgumentAfter(story) == story

\* the generator returns its text; the argument is what the run left of it
Generates(f, text) ==
    /\ fn = f
    /\ ret = NotReturned
    /\ ret' = [returned |-> TRUE, value |-> text, given |-> args.story]
    /\ args' = [story |-> ArgumentAfter(args.story)]
    /\ UNCHANGED fn
    /\ UNCHANGED <<linkVars, codecVars, appVars>>

CallGenerateTwineArchive ==
    Generates("generateTwineArchive", generateTwineArchive(args.story, FreshIfid))

CallGenerateTwee == Generates("generateTwee", generateTwee(args.story, FreshIfid))

CallGeneratePlayableHtml ==
    Generates("generatePlayableHtml", generatePlayableHtml(args.story))

CallExportAsJson == Generates("exportAsJson", exportAsJson(args.story))

NextGenerate ==
    \/ CallGenerateTwineArchive
    \/ CallGenerateTwee
    \/ CallGeneratePlayableHtml
    \/ CallExportAsJson

SpecGenerate == InitGenerate /\ [][NextGenerate]_vars

(***************************************************************************)
(* StoryPlayer: the play view shows one passage at a time; a click on a    *)
(* link of the passage shown plays the link's target.                      *)
(***************************************************************************)
\* esc(str): the text as the innerHTML of an element that has it as textContent
esc(str) ==
    IF str = <<>> \/ str = Undefined THEN <<>>
    ELSE ReplaceChar(ReplaceChar(ReplaceChar(str, "&", AMP), "<", LT), ">", GT)

\* display and target of a marker, from its inner text (escaped already)
StoryLink(inner) ==
    IF Includes(inner, <<"-">> \o GT)
    THEN [display |-> Trim(Split(inner, <<"-">> \o GT)[1]),
          target |-> Trim(Split(inner, <<"-">> \o GT)[2])]
    ELSE IF Includes(inner, <<"|">>)
    THEN [display |-> Trim(Split(inner, <<"|">>)[1]),
          target |-> Trim(Split(inner, <<"|">>)[2])]
    ELSE [display |-> Trim(inner), target |-> Trim(inner)]

\* the span a marker is replaced with
LinkSpan(inner) ==
    <<"<span class=story-link", " data-target=", Q>>
        \o ReplaceChar(StoryLink(inner).target, Q, QUOT)
        \o <<Q, ">">> \o StoryLink(inner).display \o <<"</span>">>

\* content.replace(/\[\[([^\]]+)\]\]/g, ...) from position i on
RECURSIVE ConvertLinks(_, _)
ConvertLinks(s, i) ==
    IF i > Len(s) THEN <<>>
    ELSE LET e == MatchLinkAt(s, i) IN
         IF e = 0 THEN <<s[i]>> \o ConvertLinks(s, i + 1)
         ELSE LinkSpan(SubSeq(s, i + 2, e - 3)) \o ConvertLinks(s, e)

\* link.dataset.target of the spans, in document order: the attribute values
\* as the HTML parser decodes them
RECURSIVE BoundTargets(_, _)
BoundTargets(s, i) ==
    IF i > Len(s) THEN <<>>
    ELSE LET e == MatchLinkAt(s, i) IN
         IF e = 0 THEN BoundTargets(s, i + 1)
         ELSE <<DecodeRefs(ReplaceChar(StoryLink(SubSeq(s, i + 2, e - 3)).target, Q, QUOT), 1)>>
                  \o BoundTargets(s, e)

\* content.split('\n\n').map(p => '<p>' + p.replace(/\n/g, '<br>') + '</p>').join('')
Paragraphs(text) ==
    Concat([k \in 1..Len(Split(text, <<"\n", "\n">>)) |->
        <<"<p>">> \o ReplaceChar(Split(text, <<"\n", "\n">>)[k], "\n", <<"<br>">>)
            \o <<"</p>">>])

\* the message for a passage that is not there
NotFound(passageName) == <<"<p>Passage not found: ">> \o esc(passageName) \o <<"</p>">>

\* play(passageName) on the story set: the innerHTML of the content element and
\* the targets of the links bound in it. passages[passageName] is truthy for a
\* passage of the story and for a property every object inherits, which has no
\* content
play(story, passageName) ==
    IF ~Present(story.passages, passageName)
    THEN [html |-> NotFound(passageName), targets |-> <<>>]
    ELSE LET passage == IF HasKey(story.passages, passageName)
                        THEN OrDef(Lookup(story.passages, passageName).content, <<>>)
                        ELSE <<>>
             escaped == esc(passage) IN
         [html |-> <<"<h1>">> \o esc(story.title) \o <<"</h1>">>
                       \o Paragraphs(ConvertLinks(escaped, 1)),
          targets |-> BoundTargets(escaped, 1)]

\* markers in the content of the first passage
MaxMarkers == 2

\* markers: to a passage, to a name no passage has, to names every object
\* inherits, to the empty name, with a display text
PlayMarkers ==
    { <<"[", "[", "B", "]", "]">>,
      <<"[", "[", "Z", "]", "]">>,
      <<"[", "[", "constructor", "]", "]">>,
      <<"[", "[", "toString", "]", "]">>,
      <<"[", "[", " ", "]", "]">>,
      <<"[", "[", "x", "-", ">", "B", "]", "]">>,
      <<"[", "[", "x", "|", "Z", "<", "]", "]">> }

\* the stories played: "A" with up to max markers, one to a line, and "B"
PlayStories(max) ==
    { [title |-> <<"T", "<">>,
       startPassage |-> start,
       passages |-> << Passage(<<"A">>, Join(markers, <<"\n">>), <<>>, Num(100)),
                       Passage(<<"B">>, <<"b", "\n", "\n", "[", "[", "A", "]", "]">>,
                               <<>>, Num(300)) >>] :
        start \in { <<"A">>, <<"Gone">>, <<>> },
        markers \in UNION { [1..n -> PlayMarkers] : n \in 0..max } }

InitPlay ==
    /\ OnlyCalls
    /\ fn = "play"
    /\ \E story \in PlayStories(MaxMarkers) : args = [story |-> story, passageName |-> NullName]
    /\ ret = NotReturned

\* player.play(passageName) ran
Plays(passageName) ==
    /\ fn = "play"
    /\ args' = [args EXCEPT !.passageName = passageName]
    /\ ret' = [returned |-> TRUE, value |-> play(args.story, passageName)]
    /\ UNCHANGED fn
    /\ UNCHANGED <<linkVars, codecVars, appVars>>

\* playBtn click
playBtn == Plays(OrStr(args.story.startPassage, <<"Start">>))

\* click on the k-th link of the passage shown
followLink ==
    /\ ret # NotReturned
    /\ \E k \in 1..Len(ret.value.targets) : Plays(ret.value.targets[k])

NextPlay == playBtn \/ followLink

SpecPlay == InitPlay /\ [][NextPlay]_vars

(***************************************************************************)
(* Firebase initialization: initFirebase and ensureInit                    *)
(***************************************************************************)
\* initialization attempts in one run
MaxAttempts == 3

\* initFirebase and ensureInit calls in one run
MaxCallers == 4

OutsideFirebase == UNCHANGED <<linkVars, codecVars, editorVars, callVars>>

\* a call that awaits the promise of this attempt
Waits(f, attempt) == [fn |-> f, on |-> attempt, result |-> "waiting"]

\* initFirebase(): returns initPromise when it is set, else starts the async
\* function up to its await fetch(...) and keeps its promise in initPromise
initFirebase(f) ==
    IF initPromise # 0
    THEN /\ callers' = Append(callers, Waits(f, initPromise))
         /\ UNCHANGED <<initPromise, attempts>>
    ELSE /\ Len(attempts) < MaxAttempts
         /\ attempts' = Append(attempts, "fetch")
         /\ initPromise' = Len(attempts) + 1
         /\ callers' = Append(callers, Waits(f, Len(attempts) + 1))

\* ensureInit(), up to its await: nothing to wait for when both handles are set
ensureInit ==
    /\ Len(callers) < MaxCallers
    /\ IF ~firestore \/ ~auth
       THEN initFirebase("ensureInit")
       ELSE /\ callers' = Append(callers,
                              [fn |-> "ensureInit", on |-> 0, result |-> "resolved"])
            /\ UNCHANGED <<initPromise, attempts>>
    /\ UNCHANGED <<firestore, auth, app>>
    /\ OutsideFirebase

\* the catch without its first line: initPromise keeps the rejected promise
Thrown_KeepsPromise(attempt) ==
    /\ attempts' = [attempts EXCEPT ![attempt] = "rejected"]
    /\ UNCHANGED initPromise

\* the catch of the async function: initPromise = null, and the error is rethrown
Thrown(attempt) ==
    /\ attempts' = [attempts EXCEPT ![attempt] = "rejected"]
    /\ initPromise' = 0

\* what a fetch of the configuration can come to
FetchOutcomes == { "ok", "not ok", "rejected" }

\* the async function after await fetch(...): a response that is not ok throws
fetched(attempt) ==
    /\ attempts[attempt] = "fetch"
    /\ \E outcome \in FetchOutcomes :
          IF outcome = "ok"
          THEN attempts' = [attempts EXCEPT ![attempt] = "json"] /\ UNCHANGED initPromise
          ELSE Thrown(attempt)
    /\ UNCHANGED <<firestore, auth, app, callers>>
    /\ OutsideFirebase

\* where the rest of the try block can stop: response.json() rejects, or one of
\* initializeApp, firestore() and auth() throws, or none does
ConfigOutcomes == { "json rejected", "initializeApp", "firestore", "auth", "done" }

\* the async function after await response.json(): initializeApp throws when the
\* default app exists already
configRead(attempt) ==
    /\ attempts[attempt] = "json"
    /\ \E outcome \in ConfigOutcomes :
          IF outcome \in {"json rejected", "initializeApp"} \/ app
          THEN Thrown(attempt) /\ UNCHANGED <<firestore, auth, app>>
          ELSE /\ app' = TRUE
               /\ firestore' = IF outcome = "firestore" THEN firestore ELSE TRUE
               /\ auth' = IF outcome = "done" THEN TRUE ELSE auth
               /\ IF outcome = "done"
                  THEN /\ attempts' = [attempts EXCEPT ![attempt] = "fulfilled"]
                       /\ UNCHANGED initPromise
                  ELSE Thrown(attempt)
    /\ UNCHANGED callers
    /\ OutsideFirebase

\* the promise a call awaits has settled: the call goes on, or its catch runs
settled(c) ==
    /\ callers[c].result = "waiting"
    /\ attempts[callers[c].on] \in {"fulfilled", "rejected"}
    /\ callers' = [callers EXCEPT ![c].result =
                       IF attempts[callers[c].on] = "fulfilled" THEN "resolved"
                       ELSE "rejected"]
    /\ UNCHANGED <<initPromise, attempts, firestore, auth, app>>
    /\ OutsideFirebase

\* the module has been evaluated: its last line has called initFirebase()
InitFirebase ==
    /\ EditorIdle
    /\ NoCall
    /\ content = <<>>
    /\ links = NoLinks
    /\ lpc = "idle"
    /\ typed = 0
    /\ storyObj = NoResult
    /\ file = <<>>
    /\ codec = "none"
    /\ cpc = "idle"
    /\ source = NoResult
    /\ rounds = 0
    /\ initPromise = 1
    /\ attempts = <<"fetch">>
    /\ firestore = FALSE
    /\ auth = FALSE
    /\ app = FALSE
    /\ callers = <<Waits("initFirebase", 1)>>

NextFirebase ==
    \/ ensureInit
    \/ \E attempt \in 1..Len(attempts) : fetched(attempt)
    \/ \E attempt \in 1..Len(attempts) : configRead(attempt)
    \/ \E c \in 1..Len(callers) : settled(c)

SpecFirebase == InitFirebase /\ [][NextFirebase]_vars

(***************************************************************************)
(* Link markers, stated by position rather than by scanning                *)
(***************************************************************************)
ARROW == <<"-", ">">>

\* a marker may span i..e+1: "[[" at i, "]]" at e, and between them at least one
\* character, none of them "]"
SpansMarker(c, i, e) ==
    /\ HasAt(c, <<"[", "[">>, i)
    /\ HasAt(c, <<"]", "]">>, e)
    /\ e >= i + 3
    /\ \A j \in (i + 2)..(e - 1) : c[j] # "]"

\* the positions where a marker closes
MarkerEnds(c) == { e \in 1..Len(c) : \E i \in 1..Len(c) : SpansMarker(c, i, e) }

\* the marker that closes at e opens at the leftmost "[[" that can reach e
MarkerStart(c, e) ==
    CHOOSE i \in 1..Len(c) :
        /\ SpansMarker(c, i, e)
        /\ \A j \in 1..(i - 1) : ~SpansMarker(c, j, e)

\* the k-th closing position of ends, in order of appearance
KthEnd(ends, k) ==
    CHOOSE e \in ends : Cardinality({ d \in ends : d < e }) = k - 1

\* the markers of c in order of appearance, each with its brackets
Markers(c) ==
    LET ends == MarkerEnds(c) IN
    [k \in 1..Cardinality(ends) |->
        LET e == KthEnd(ends, k) IN SubSeq(c, MarkerStart(c, e), e + 1)]

\* the text between the brackets of marker m
Inner(m) == SubSeq(m, 3, Len(m) - 2)

\* the number of occurrences of the character ch in s
CountChar(s, ch) == Cardinality({ j \in 1..Len(s) : s[j] = ch })

\* the text after the last occurrence of ch in s (s itself when ch is absent)
AfterLastChar(s, ch) ==
    LET js == { j \in 1..Len(s) : s[j] = ch } IN
    IF js = {} THEN s
    ELSE SubSeq(s, (CHOOSE j \in js : \A h \in js : h <= j) + 1, Len(s))

\* the text after the first occurrence of pat in s
AfterFirst(s, pat) == SubSeq(s, IndexFrom(s, pat, 1) + Len(pat), Len(s))

Rendered == lpc = "rendered"

(***************************************************************************)
(* C7: extractLinks, arrow syntax. For every marker whose inner text       *)
(* contains "->", also one with two or more "->", the returned target is   *)
(* the whole text after the first "->", trimmed.                           *)
(***************************************************************************)
C7_ArrowTargetIsAllAfterFirstArrow ==
    Rendered =>
        LET ms == Markers(content) IN
        /\ ~links.threw
        /\ Len(links.value) = Len(ms)
        /\ \A k \in 1..Len(ms) :
             Includes(Inner(ms[k]), ARROW) =>
                 links.value[k] = Trim(AfterFirst(Inner(ms[k]), ARROW))

(***************************************************************************)
(* C8: extractLinks, pipe and bare syntax. For a marker without "->" the   *)
(* target is the trimmed text after the last "|" if it has one, otherwise  *)
(* the trimmed whole inner text; content without a marker yields the empty *)
(* sequence.                                                               *)
(***************************************************************************)
C8_PipeAndBareTargets ==
    Rendered =>
        LET ms == Markers(content) IN
        /\ ~links.threw
        /\ Len(links.value) = Len(ms)
        /\ \A k \in 1..Len(ms) :
             ~Includes(Inner(ms[k]), ARROW) =>
                 links.value[k] = Trim(AfterLastChar(Inner(ms[k]), "|"))

\* a rendered marker that has two pipes, no arrow, and a target that is neither
\* empty nor the whole inner text
C8_Witness ==
    /\ Rendered
    /\ LET ms == Markers(content) IN
       \E k \in 1..Len(ms) :
         /\ ~Includes(Inner(ms[k]), ARROW)
         /\ CountChar(Inner(ms[k]), "|") >= 2
         /\ links.value[k] # <<>>
         /\ links.value[k] # Trim(Inner(ms[k]))

(***************************************************************************)
(* C9: extractLinks returns one target per link marker, in the order the   *)
(* markers appear in the content, keeping duplicates.                      *)
(***************************************************************************)
C9_OneTargetPerMarkerInOrder ==
    Rendered =>
        LET ms == Markers(content) IN
        /\ ~links.threw
        /\ Len(links.value) = Len(ms)
        /\ \A k \in 1..Len(ms) : links.value[k] = LinkTarget(ms[k]).value

\* two markers with the same non-empty target were rendered, both kept
C9_Witness ==
    /\ Rendered
    /\ Len(Markers(content)) = 2
    /\ Len(links.value) = 2
    /\ links.value[1] = links.value[2]
    /\ links.value[1] # <<>>

(***************************************************************************)
(* C10 as claimed: extractLinks on content containing the empty marker     *)
(* "[[]]" does not fail and returns an empty-string target for that        *)
(* marker.                                                                 *)
(***************************************************************************)
EmptyMarker == <<"[", "[", "]", "]">>

C10_EmptyMarkerYieldsEmptyTarget ==
    (Rendered /\ Includes(content, EmptyMarker)) =>
        /\ ~links.threw
        /\ \E k \in 1..Len(links.value) : links.value[k] = <<>>

(***************************************************************************)
(* C10 as amended: extractLinks on content containing "[[]]" does not fail *)
(* and returns no target for it: "[[]]" alone yields the empty sequence,   *)
(* and there are exactly as many targets as markers with at least one      *)
(* character between the brackets.                                         *)
(***************************************************************************)
C10_EmptyMarkerYieldsNoTarget ==
    (Rendered /\ Includes(content, EmptyMarker)) =>
        /\ ~links.threw
        /\ Len(links.value) = Len(Markers(content))
        /\ content = EmptyMarker => links.value = <<>>

\* content with an empty marker followed by a real one was rendered
C10_Witness ==
    /\ Rendered
    /\ Includes(content, EmptyMarker)
    /\ links = Ok(<< <<"a">> >>)

(***************************************************************************)
(* The data-model invariants of a story, and what a round trip keeps       *)
(***************************************************************************)
ValidPassage(p) ==
    /\ p.key = p.name
    /\ validatePassageName(p.name) = "null"
    /\ p.content # Undefined
    /\ p.tags # Undefined
    /\ p.x # UndefNum /\ p.y # UndefNum
    /\ p.width # UndefNum /\ IsWhole(p.width) /\ p.width > 0
    /\ p.height # UndefNum /\ IsWhole(p.height) /\ p.height > 0

ValidStory(s) ==
    /\ IsResult(s)
    /\ s.title \notin {<<>>, Undefined}
    /\ \A k \in 1..Len(s.passages) : ValidPassage(s.passages[k])
    /\ Len(s.passages) >= 1 => HasKey(s.passages, s.startPassage)
    /\ s.ifid \notin {<<>>, Undefined}
    /\ s.zoom # UndefNum /\ s.zoom > 0

\* b has the title, the start passage and the passages of a: the same names and,
\* name by name, the same content, tags, position and size
SameStory(a, b) ==
    /\ b.title = a.title
    /\ b.startPassage = a.startPassage
    /\ { a.passages[k].key : k \in 1..Len(a.passages) }
         = { b.passages[k].key : k \in 1..Len(b.passages) }
    /\ \A k \in 1..Len(a.passages) :
         LET p == a.passages[k]
             q == Lookup(b.passages, p.key) IN
         /\ q.name = p.name /\ q.content = p.content /\ q.tags = p.tags
         /\ q.x = p.x /\ q.y = p.y /\ q.width = p.width /\ q.height = p.height

\* the parser of the format has just read back what the generator wrote for a
\* story that satisfies the invariants
ReadBack(by) ==
    /\ codec = by
    /\ cpc \in {"parsed", "noresult"}
    /\ ValidStory(source)

\* C1: the archive round trip keeps title, start passage, passage names and each
\* passage's content, tags, x, y, width and height of every valid story
C1_ArchiveRoundTrip ==
    ReadBack("archive") => cpc = "parsed" /\ SameStory(source, storyObj)

\* C2: the line-format round trip keeps title, start passage, passage names and
\* each passage's content, tags, position and size of every valid story
C2_TweeRoundTrip ==
    ReadBack("twee") => cpc = "parsed" /\ SameStory(source, storyObj)

\* C3: parseJson of what exportAsJson wrote for a valid story is a story equal to
\* the original in every field
C3_JsonRoundTripLossless ==
    ReadBack("json") => storyObj = source

\* a valid story with a quote and an ampersand in its title, a line break and a
\* link in its content and a fractional coordinate came back from JSON
C3_Witness ==
    /\ ReadBack("json")
    /\ cpc = "parsed"
    /\ rounds = 1
    /\ source.title = <<"T", "\"", "&", "x">>
    /\ \E k \in 1..Len(source.passages) :
         /\ Includes(source.passages[k].content, <<"\n">>)
         /\ ~IsWhole(source.passages[k].x)
    /\ Len(storyObj.passages) = 2

\* C4: through generate and parse of each of the three codecs, repeatedly, a story
\* that carries an ifid keeps exactly that ifid
C4_IfidKept ==
    (\E by \in {"archive", "twee", "json"} : ReadBack(by))
        => cpc = "parsed" /\ storyObj.ifid = source.ifid

\* the story has passages and its startPassage names none of them
Unresolved(s) ==
    /\ IsResult(s)
    /\ Len(s.passages) >= 1
    /\ ~HasKey(s.passages, s.startPassage)

\* the text between the first occurrence of open and the next occurrence of close
Between(text, open, close) ==
    LET i == IndexFrom(text, open, 1)
        j == IF i = 0 THEN 0 ELSE IndexFrom(text, close, i + Len(open)) IN
    IF j = 0 THEN Undefined ELSE SubSeq(text, i + Len(open), j - 1)

\* the name of the first passage element that carries the archive's start node
ArchiveStart(text) ==
    LET pels == ByTag(Children(text, ReadAttrs(text, 2).next), "<tw-passagedata")
        startNode == Between(text, <<" startnode=", Q>>, <<Q>>)
        hits == { k \in 1..Len(pels) : GetAttr(pels[k].attrs, " pid=") = startNode } IN
    IF hits = {} THEN Undefined
    ELSE GetAttr(pels[CHOOSE k \in hits : \A h \in hits : k <= h].attrs, " name=")

\* the start reference a generated file carries
StartReference ==
    CASE codec = "archive" -> ArchiveStart(file)
      [] codec = "twee" ->
            Between(file, <<Q, "start", Q, ":", " ", Q>>, <<Q, ",", "\n">>)
      [] codec = "html" -> Between(file, <<"const startPassage = ", Q>>, <<Q, ";", "\n">>)
      [] OTHER -> Undefined

\* C6: for a story with passages whose startPassage names none of them, the archive,
\* the line format and the playable document carry the first passage as the start
C6_GeneratorsSubstituteFirstPassage ==
    (cpc = "file" /\ codec \in {"archive", "twee", "html"} /\ Unresolved(source))
        => StartReference = source.passages[1].name

(***************************************************************************)
(* C5                                                                      *)
(* Start-passage invariant: when no handler is waiting on the database,    *)
(* that is after any sequence of completed create-story, import, rename,   *)
(* delete and set-start operations, every stored story and the open story  *)
(* that has at least one passage has a startPassage that is the key of a   *)
(* passage present in it.                                                  *)
(***************************************************************************)
StartResolves(story) ==
    Len(story.passages) >= 1 => HasKey(story.passages, story.startPassage)

C5_StartPassageNamesAPassage ==
    pending = <<>> =>
        /\ \A k \in 1..Len(db) : StartResolves(db[k])
        /\ currentStory # NullStory => StartResolves(currentStory)

(***************************************************************************)
(* C11                                                                     *)
(* validatePassageName rejects exactly the names that are empty or blank,  *)
(* longer than 200 characters, contain ".", contain one of "[", "]", "{",  *)
(* "}", "#", "$", "/", or are one of the six reserved words; every other   *)
(* name is accepted: a name of 200 characters and "Cave 2" are accepted, a *)
(* name of 201 characters is rejected.                                     *)
(***************************************************************************)
IsBlank(name) == \A k \in 1..Len(name) : IsWs(name[k])

HasOneOf(name, chars) == \E k \in 1..Len(name) : name[k] \in chars

MustReject(name) ==
    \/ IsBlank(name)
    \/ Len(name) > NameLimit
    \/ HasOneOf(name, {"."})
    \/ HasOneOf(name, {"[", "]", "{", "}", "#", "$", "/"})
    \/ name \in Reserved

C11_RejectsExactlyTheInvalidNames ==
    Returned("validatePassageName") =>
        /\ (ret.value # "null") <=> MustReject(args)
        /\ args \in { LongName(NameLimit), <<"C", "a", "v", "e", " ", "2">> }
                => ret.value = "null"
        /\ args = LongName(NameLimit + 1) => ret.value # "null"

C11_Witness ==
    /\ Returned("validatePassageName")
    /\ args = LongName(NameLimit)
    /\ ret.value = "null"

(***************************************************************************)
(* Renaming, as closePassageEditor does it. The handler reads the story    *)
(* and the selection, and hands the renamed passage map and the start      *)
(* passage to StoryDB.setPassages; when that call resolves they become the *)
(* story's.                                                                *)
(***************************************************************************)
\* this step is closePassageEditor reaching "await StoryDB.setPassages"
RenameQueued ==
    /\ Len(pending') = Len(pending) + 1
    /\ pending'[Len(pending')].op = "rename"

\* the call just queued
Queued == pending'[Len(pending')]

\* this step is closePassageEditor going on after StoryDB.setPassages resolved
RenameStored ==
    /\ Awaited("rename")
    /\ pending' = Tail(pending)
    /\ db' # db
    /\ currentStory # NullStory

\* the passage at a key the map has
At(ps, key) == ps[CHOOSE k \in 1..Len(ps) : ps[k].key = key]

(***************************************************************************)
(* C12                                                                     *)
(* A successful rename of oldName to a valid, unused newName yields a      *)
(* passage map in which oldName is absent, newName holds the passage with  *)
(* its name field equal to newName, every other passage key is still       *)
(* present, and startPassage is newName if it was oldName and is unchanged *)
(* otherwise.                                                              *)
(***************************************************************************)
Moved(before, start, oldName, after, startAfter, newName) ==
    /\ newName # oldName
    /\ ~MustReject(newName)
    /\ ~\E k \in 1..Len(before) : before[k].key = newName
    /\ ~\E k \in 1..Len(after) : after[k].key = oldName
    /\ Cardinality({ k \in 1..Len(after) : after[k].key = newName }) = 1
    /\ At(after, newName).name = newName
    /\ \A k \in 1..Len(before) :
          before[k].key = oldName =>
              /\ At(after, newName).x = before[k].x
              /\ At(after, newName).y = before[k].y
              /\ At(after, newName).tags = before[k].tags
    /\ \A k \in 1..Len(before) :
          before[k].key # oldName => \E j \in 1..Len(after) : after[j].key = before[k].key
    /\ startAfter = IF start = oldName THEN newName ELSE start

C12_RenameMovesThePassage ==
    [][ /\ RenameQueued =>
            \E k \in 1..Len(Queued.passages) :
                Moved(currentStory.passages, currentStory.startPassage, selectedPassage,
                      Queued.passages, Queued.startPassage, Queued.passages[k].key)
        /\ RenameStored =>
            /\ currentStory'.passages = Head(pending).passages
            /\ currentStory'.startPassage = Head(pending).startPassage
            /\ db'[1].passages = Head(pending).passages
            /\ db'[1].startPassage = Head(pending).startPassage ]_vars

\* the first passage of a new story, which was its start passage, is now "A"
C12_Witness ==
    /\ currentStory # NullStory
    /\ pending = <<>>
    /\ currentStory.startPassage = <<"A">>
    /\ \E k \in 1..Len(currentStory.passages) :
          /\ currentStory.passages[k].key = <<"A">>
          /\ currentStory.passages[k].name = <<"A">>
          /\ currentStory.passages[k].x = NewStoryData(<<"T">>).passages[1].x
    /\ ~\E k \in 1..Len(currentStory.passages) : currentStory.passages[k].key = <<"Start">>
    /\ db # <<>>
    /\ db[1].passages = currentStory.passages
    /\ db[1].startPassage = <<"A">>

(***************************************************************************)
(* C13                                                                     *)
(* Rename keeps links resolving: after a successful rename of oldName to   *)
(* newName, in every passage other than the renamed one, each link marker  *)
(* for which extractLinks returned oldName before the rename returns       *)
(* newName after it, for all three syntaxes (markers with several "|" and  *)
(* new names that contain "|" or "->" included).                           *)
(***************************************************************************)
\* the targets extractLinks returns for the content of the passage at key
TargetsAt(ps, key) == extractLinks(At(ps, key).content).value

LinksFollow(before, after, oldName, newName) ==
    \A k \in 1..Len(before) :
        before[k].key # oldName =>
            /\ Len(TargetsAt(after, before[k].key)) = Len(TargetsAt(before, before[k].key))
            /\ \A j \in 1..Len(TargetsAt(before, before[k].key)) :
                  TargetsAt(before, before[k].key)[j] = oldName
                      => TargetsAt(after, before[k].key)[j] = newName

C13_RenameKeepsLinksResolving ==
    Returned("closePassageEditor") =>
        LinksFollow(args.passages, ret.value.passages, args.oldName, args.newName)

\* the links do follow when the marker holds at most one separator and the new
\* name is "A", which holds none
RenameFollowsSimpleMarkers ==
    (/\ Returned("closePassageEditor")
     /\ args.newName = <<"A">>
     /\ Cardinality({ k \in 1..Len(args.passages[2].content) :
                        args.passages[2].content[k] \in {"|", ">"} }) <= 1) =>
        LinksFollow(args.passages, ret.value.passages, args.oldName, args.newName)

(***************************************************************************)
(* C14                                                                     *)
(* Rename does not touch unrelated links: a link marker whose extractLinks *)
(* target differs from oldName is left character for character unchanged   *)
(* by the rewrite, and when no other passage references oldName the rename *)
(* changes only the renamed passage's key and name field.                  *)
(***************************************************************************)
\* the markers of the passage at key, and whether any of them targets name
MarkersAt(ps, key) == Markers(At(ps, key).content)

References(ps, key, name) ==
    \E j \in 1..Len(TargetsAt(ps, key)) : TargetsAt(ps, key)[j] = name

UnrelatedKept(before, after, oldName) ==
    \A k \in 1..Len(before) :
        before[k].key # oldName =>
            /\ Len(MarkersAt(after, before[k].key)) = Len(MarkersAt(before, before[k].key))
            /\ \A j \in 1..Len(MarkersAt(before, before[k].key)) :
                  TargetsAt(before, before[k].key)[j] # oldName
                      => MarkersAt(after, before[k].key)[j]
                            = MarkersAt(before, before[k].key)[j]

OnlyKeyAndName(before, after, oldName, newName) ==
    (\A k \in 1..Len(before) :
        before[k].key # oldName => ~References(before, before[k].key, oldName))
    => /\ Len(after) = Len(before)
       /\ \A k \in 1..Len(before) :
             IF before[k].key = oldName
             THEN At(after, newName) = [before[k] EXCEPT !.key = newName, !.name = newName]
             ELSE At(after, before[k].key) = before[k]

C14_RenameLeavesOtherLinksAlone ==
    Returned("closePassageEditor") =>
        /\ UnrelatedKept(args.passages, ret.value.passages, args.oldName)
        /\ OnlyKeyAndName(args.passages, ret.value.passages, args.oldName, args.newName)

(***************************************************************************)
(* C15                                                                     *)
(* A rename to a name that fails the validity rule, or to a name already   *)
(* held by another passage, is reported as its own distinct outcome        *)
(* (invalid name or name collision), issues no database write, and leaves  *)
(* the story's passages and startPassage unchanged.                        *)
(***************************************************************************)
InvalidNameOutcomes ==
    { "Passage name cannot be empty", "Passage name is too long (max 200 characters)",
      "Passage name cannot contain dots", "Passage name contains invalid characters",
      "Passage name is reserved" }

CollisionOutcome == "A passage named ... already exists"

\* the name the editor asks for: the input trimmed, the old name if that is empty
Asked(nameInput) == IF Trim(nameInput) = <<>> THEN selectedPassage ELSE Trim(nameInput)

\* the owner has the editor of a selected passage open
OwnerEdits ==
    /\ modal
    /\ currentStory # NullStory
    /\ selectedPassage \notin NoSelection
    /\ isOwner(currentStory)

\* the name asked for is not the passage's own and is held by a passage
Held(newName) ==
    /\ newName # selectedPassage
    /\ \E k \in 1..Len(currentStory.passages) : currentStory.passages[k].key = newName

Refused(outcomes) ==
    /\ toast' \in outcomes
    /\ UNCHANGED <<db, pending, currentStory, stories>>

OwnerSelects ==
    /\ modal
    /\ currentStory # NullStory
    /\ isOwner(currentStory)
    /\ selectedPassage \notin NoSelection

\* the keys of the map other than name, in the map's order
OtherKeys(ps, name) ==
    LET others == { k \in 1..Len(ps) : ps[k].key # name } IN
    [j \in 1..Cardinality(others) |->
        ps[CHOOSE k \in others : Cardinality({ i \in others : i < k }) = j - 1].key]

DeleteQueued ==
    /\ Len(pending') = Len(pending) + 1
    /\ Queued.op = "delete"
    /\ Queued.id = currentStory.id
    /\ Queued.name = selectedPassage

DeleteStored ==
    /\ Awaited("delete")
    /\ pending' = Tail(pending)
    /\ db' # db
    /\ currentStory # NullStory

C16_DeleteKeepsAStartPassage ==
    [][ /\ (OwnerSelects /\ clicks' # clicks /\ Len(currentStory.passages) <= 1) =>
            \A confirmed \in BOOLEAN :
                deletePassageBtn(confirmed) =>
                    /\ toast' = "Cannot delete the only passage"
                    /\ UNCHANGED <<db, pending, currentStory, stories>>
        /\ (/\ OwnerSelects
            /\ clicks' # clicks
            /\ Len(currentStory.passages) >= 2
            /\ currentStory.startPassage = selectedPassage
            /\ deletePassageBtn(TRUE)) =>
                /\ DeleteQueued
                /\ Queued.newStart = OtherKeys(currentStory.passages, selectedPassage)[1]
                /\ \E k \in 1..Len(currentStory.passages) :
                      /\ currentStory.passages[k].key = Queued.newStart
                      /\ currentStory.passages[k].key # selectedPassage
        /\ DeleteStored =>
            /\ \A k \in 1..Len(currentStory'.passages) :
                  currentStory'.passages[k].key # Head(pending).name
            /\ \A k \in 1..Len(currentStory.passages) :
                  currentStory.passages[k].key # Head(pending).name
                      => \E j \in 1..Len(currentStory'.passages) :
                            currentStory'.passages[j] = currentStory.passages[k]
            /\ \A k \in 1..Len(db'[1].passages) :
                  db'[1].passages[k].key # Head(pending).name
            /\ Head(pending).newStart # Undefined =>
                  /\ currentStory'.startPassage = Head(pending).newStart
                  /\ db'[1].startPassage = Head(pending).newStart ]_vars

\* the first passage of a new story, its start passage, was deleted: the start
\* passage is now the added passage
C16_Witness ==
    /\ toast = "Deleted"
    /\ pending = <<>>
    /\ currentStory # NullStory
    /\ currentStory.startPassage = <<"New Passage">>
    /\ Len(currentStory.passages) = 1
    /\ currentStory.passages[1].key = <<"New Passage">>
    /\ db # <<>>
    /\ db[1].startPassage = <<"New Passage">>
    /\ db[1].passages = currentStory.passages

(***************************************************************************)
(* Content sniffing, as the dispatch order states it                       *)
(***************************************************************************)
\* the first character of the text that is not blank, "" when there is none
FirstNonBlank(text) ==
    LET at == { k \in 1..Len(text) : ~IsWs(text[k]) } IN
    IF at = {} THEN "" ELSE text[CHOOSE k \in at : \A h \in at : k <= h]

\* the text holds these characters in a row
Holds(text, word) ==
    \E k \in 1..Len(text) :
        /\ k + Len(word) - 1 <= Len(text)
        /\ \A j \in 1..Len(word) : text[k + j - 1] = word[j]

\* the result of the parser the content picks
Sniffed(text) ==
    IF FirstNonBlank(text) = "{" THEN parseJson(text, FreshIfid)
    ELSE IF Holds(text, <<"<tw-storydata">>) THEN parseTwine(text, FreshIfid)
    ELSE IF Holds(text, <<":", ":">>) THEN parseTwee(text, FreshIfid)
    ELSE NoResult

\* the result of the parser the extension names, for the extensions that name one
Hinted(text, ext) ==
    IF ext = <<"json">> THEN parseJson(text, FreshIfid)
    ELSE IF ext \in { <<"twee">>, <<"tw">> } THEN parseTwee(text, FreshIfid)
    ELSE parseTwine(text, FreshIfid)

HintedExtensions == { <<"json">>, <<"twee">>, <<"tw">>, <<"html">>, <<"htm">> }

(***************************************************************************)
(* C17                                                                     *)
(* parseFile falls back to content sniffing when the parser chosen by the  *)
(* file-extension hint returns no result: content that is a valid          *)
(* line-format document in a file named with a .json or .html extension is *)
(* still parsed by the line-format parser.                                 *)
(***************************************************************************)
C17_FallsBackToSniffing ==
    (/\ Returned("parseFile")
     /\ Extension(args.filename) \in HintedExtensions
     /\ Hinted(args.content, Extension(args.filename)) = NoResult)
        => ret.value = Sniffed(args.content)

(***************************************************************************)
(* C18                                                                     *)
(* parseFile with no recognised extension picks the parser by content in a *)
(* fixed order: content whose first non-blank character is "{" goes to the *)
(* JSON parser, otherwise content containing the archive container tag     *)
(* goes to the archive parser, otherwise content containing "::" goes to   *)
(* the line-format parser, otherwise the result is no result.              *)
(***************************************************************************)
C18_SniffsInFixedOrder ==
    (Returned("parseFile") /\ Extension(args.filename) \notin HintedExtensions)
        => ret.value = Sniffed(args.content)

\* a file without extension that holds the container tag and "::" after a line
\* of text went to the archive parser, which found its passage
C18_Witness ==
    /\ Returned("parseFile")
    /\ args.filename = <<"story">>
    /\ FirstNonBlank(args.content) = "a"
    /\ Holds(args.content, <<"<tw-storydata">>)
    /\ Holds(args.content, <<":", ":">>)
    /\ ret.value # NoResult
    /\ ret.value = parseTwine(args.content, FreshIfid)
    /\ ret.value # parseTwee(args.content, FreshIfid)

(***************************************************************************)
(* The headers of a line-format document                                   *)
(***************************************************************************)
\* the lines of the text
LinesOf(text) == Split(text, <<"\n">>)

IsHeader(line) == HeaderMatch(line).matched

\* a header named StoryTitle or StoryData, or tagged stylesheet or script
IsSpecialHeader(line) ==
    /\ IsHeader(line)
    /\ \/ Trim(HeaderMatch(line).name) \in { <<"StoryTitle">>, <<"StoryData">> }
       \/ \E k \in 1..Len(HeaderTags(HeaderMatch(line))) :
             HeaderTags(HeaderMatch(line))[k] \in { <<"stylesheet">>, <<"script">> }

IsOrdinaryHeader(line) == IsHeader(line) /\ ~IsSpecialHeader(line)

(***************************************************************************)
(* C19                                                                     *)
(* Each parser returns no result, and never a Story with zero passages and *)
(* never a thrown error, when its input has no usable passages: parseTwine *)
(* when the container is absent or holds no passage element, parseTwee     *)
(* when no ordinary passage header occurs, parseJson when the input is not *)
(* JSON or is not an object with title and passages.                       *)
(***************************************************************************)
NoPassageElement(text) ==
    ~Holds(text, <<"<tw-storydata">>) \/ ~Holds(text, <<"<tw-passagedata">>)

NoOrdinaryHeader(text) ==
    \A k \in 1..Len(LinesOf(text)) : ~IsOrdinaryHeader(LinesOf(text)[k])

NoStoryObject(text) ==
    \/ ~JsonParse(text).ok
    \/ JsonParse(text).v.t # "obj"
    \/ \A k \in 1..Len(JsonParse(text).v.ks) : JsonParse(text).v.ks[k] # <<"title">>
    \/ \A k \in 1..Len(JsonParse(text).v.ks) : JsonParse(text).v.ks[k] # <<"passages">>

C19_NoPassagesNoResult ==
    /\ (Returned("parseTwine") /\ NoPassageElement(args.content)) => ret.value = NoResult
    /\ (Returned("parseTwee") /\ NoOrdinaryHeader(args.content)) => ret.value = NoResult
    /\ (Returned("parseJson") /\ NoStoryObject(args.content)) => ret.value = NoResult

\* a line-format document with a title and a stylesheet and no passage
C19_Witness ==
    /\ Returned("parseTwee")
    /\ args.content = <<":", ":", " ", "StoryTitle", "\n", " ", "T", " ", "\n",
                        ":", ":", " ", "S", " ", "[", "stylesheet", "]">>
    /\ NoOrdinaryHeader(args.content)
    /\ ret.value = NoResult

(***************************************************************************)
(* C20                                                                     *)
(* parseTwee mode routing: a header named StoryTitle or StoryData, or      *)
(* whose tag list contains stylesheet or script, never adds a passage, and *)
(* the lines after it up to the next header go only to the title, the      *)
(* story metadata, the stylesheet or the script respectively; every other  *)
(* header adds exactly one passage keyed by its name, and the title is the *)
(* last non-blank line after a StoryTitle header.                          *)
(***************************************************************************)
\* what the block a header starts is for
KindOf(line) ==
    IF Trim(HeaderMatch(line).name) = <<"StoryTitle">> THEN "title"
    ELSE IF Trim(HeaderMatch(line).name) = <<"StoryData">> THEN "storydata"
    ELSE IF \E k \in 1..Len(HeaderTags(HeaderMatch(line))) :
                HeaderTags(HeaderMatch(line))[k] = <<"stylesheet">> THEN "stylesheet"
    ELSE IF \E k \in 1..Len(HeaderTags(HeaderMatch(line))) :
                HeaderTags(HeaderMatch(line))[k] = <<"script">> THEN "script"
    ELSE "passage"

\* the header line k belongs to, 0 before the first header
HeaderOf(lines, k) ==
    IF \E h \in 1..k : IsHeader(lines[h])
    THEN CHOOSE h \in 1..k :
            IsHeader(lines[h]) /\ \A j \in (h + 1)..k : ~IsHeader(lines[j])
    ELSE 0

\* the lines that are no header and follow a header of this kind, in order
LinesFor(lines, kind) ==
    SelectSeq([k \in 1..Len(lines) |->
                  IF /\ ~IsHeader(lines[k])
                     /\ HeaderOf(lines, k) # 0
                     /\ KindOf(lines[HeaderOf(lines, k)]) = kind
                  THEN <<lines[k]>> ELSE <<>>],
              LAMBDA l : l # <<>>)

\* the names of the ordinary headers
OrdinaryNames(lines) ==
    { Trim(HeaderMatch(lines[k]).name) :
        k \in { h \in 1..Len(lines) : IsOrdinaryHeader(lines[h]) } }

\* the passages of what the parser returned
ParsedPassages(result) == IF result = NoResult THEN <<>> ELSE result.passages

\* the last line of ls that is not blank, trimmed; dflt when there is none
LastNonBlank(ls, dflt) ==
    IF \A k \in 1..Len(ls) : Trim(ls[k][1]) = <<>> THEN dflt
    ELSE Trim(ls[CHOOSE k \in 1..Len(ls) :
                    /\ Trim(ls[k][1]) # <<>>
                    /\ \A j \in (k + 1)..Len(ls) : Trim(ls[j][1]) = <<>>][1])

\* the lines of ls, each with its line break, in a row, trimmed
Gathered(ls) == Trim(Concat([k \in 1..Len(ls) |-> ls[k][1] \o <<"\n">>]))

Routed(lines, result) ==
    /\ { ParsedPassages(result)[k].key : k \in 1..Len(ParsedPassages(result)) }
            = OrdinaryNames(lines)
    /\ Len(ParsedPassages(result)) = Cardinality(OrdinaryNames(lines))
    /\ result # NoResult =>
          /\ result.title = LastNonBlank(LinesFor(lines, "title"), <<"Imported Story">>)
          /\ result.stylesheet = Gathered(LinesFor(lines, "stylesheet"))
          /\ result.javascript = Gathered(LinesFor(lines, "script"))
          /\ \A k \in 1..Len(result.passages) :
                \A j \in 1..Len(result.passages[k].content) :
                    \E l \in 1..Len(LinesFor(lines, "passage")) :
                        result.passages[k].content[j] \in
                            { LinesFor(lines, "passage")[l][1][i] :
                                i \in 1..Len(LinesFor(lines, "passage")[l][1]) } \cup {"\n"}

C20_HeadersRouteTheirLines ==
    Returned("parseTwee") => Routed(LinesOf(args.content), ret.value)

\* the routing does hold for the documents without a header named "__proto__"
HeadersRouteOtherNames ==
    (Returned("parseTwee") /\ ~Holds(args.content, <<"__proto__">>))
        => Routed(LinesOf(args.content), ret.value)

(***************************************************************************)
(* C21                                                                     *)
(* parseTwee default layout: a passage whose header has no position        *)
(* metadata gets x = 100 + 200*(i mod 5) and y = 100 + 150*(i div 5),      *)
(* where i is the 0-based number of ordinary passage headers seen before   *)
(* it (StoryTitle, StoryData, stylesheet and script headers are not        *)
(* counted).                                                               *)
(***************************************************************************)
\* the header's metadata, if it has any, does not mention a position
NoPositionMetadata(line) ==
    \/ HeaderMatch(line).meta = Undefined
    \/ ~Holds(HeaderMatch(line).meta, <<"position">>)

\* the ordinary headers before line k
OrdinaryBefore(lines, k) ==
    Cardinality({ h \in 1..(k - 1) : IsOrdinaryHeader(lines[h]) })

\* line k is the last header of its name
LastOfItsName(lines, k) ==
    \A h \in (k + 1)..Len(lines) :
        IsHeader(lines[h]) =>
            Trim(HeaderMatch(lines[h]).name) # Trim(HeaderMatch(lines[k]).name)

\* the passage of header line k is at its place in the grid
OnTheGrid(lines, k, passages) ==
    \A j \in 1..Len(passages) :
        passages[j].key = Trim(HeaderMatch(lines[k]).name) =>
            /\ passages[j].x = Num(100 + 200 * (OrdinaryBefore(lines, k) % 5))
            /\ passages[j].y = Num(100 + 150 * (OrdinaryBefore(lines, k) \div 5))

C21_DefaultGridLayout ==
    Returned("parseTwee") =>
        \A k \in 1..Len(LinesOf(args.content)) :
            ( /\ IsOrdinaryHeader(LinesOf(args.content)[k])
              /\ NoPositionMetadata(LinesOf(args.content)[k])
              /\ LastOfItsName(LinesOf(args.content), k) )
                => OnTheGrid(LinesOf(args.content), k, ParsedPassages(ret.value))

\* six ordinary headers, one with a size only: the sixth passage starts the
\* second row
C21_Witness ==
    /\ Returned("parseTwee")
    /\ Len(LinesOf(args.content)) = 6
    /\ \A k \in 1..6 :
          /\ IsOrdinaryHeader(LinesOf(args.content)[k])
          /\ NoPositionMetadata(LinesOf(args.content)[k])
    /\ \E k \in 1..6 : HeaderMatch(LinesOf(args.content)[k]).meta # Undefined
    /\ Len(ret.value.passages) = 6
    /\ \E j \in 1..6 :
          /\ ret.value.passages[j].key = <<"6">>
          /\ ret.value.passages[j].x = Num(100)
          /\ ret.value.passages[j].y = Num(250)

(***************************************************************************)
(* C22                                                                     *)
(* parseTwee StoryData: when the lines after a StoryData header form a     *)
(* JSON object pretty-printed over several lines, the parser extracts      *)
(* ifid, format, format-version, start, zoom and tag-colors from it once   *)
(* the accumulated lines parse, and lines accumulated after a successful   *)
(* parse do not change the values already extracted.                       *)
(***************************************************************************)
\* the value of a property of the object, or dflt for a property it lacks
Extracted(has, key, value, dflt) == IF key \in has THEN value ELSE dflt

\* the result has the values of the object with the properties of has
HasStoryData(result, has) ==
    /\ result # NoResult
    /\ result.ifid = Extracted(has, "ifid", <<"IFID-2">>, FreshIfid)
    /\ result.format = Extracted(has, "format", <<"SugarCube">>, <<>>)
    /\ result.formatVersion = Extracted(has, "format-version", <<"2", ".", "1">>, <<>>)
    /\ result.startPassage = Extracted(has, "start", <<"A">>, <<"Start">>)
    /\ result.zoom = Extracted(has, "zoom", Num(2), Num(1))
    /\ result.tagColors =
          Extracted(has, "tag-colors", << [name |-> <<"t">>, color |-> <<"red">>] >>, <<>>)

C22_StoryDataAcrossLines ==
    Returned("parseTwee") =>
        \A doc \in StoryDataDocs :
            args.content = doc.text => HasStoryData(ret.value, doc.has)

\* the object with all six properties over nine lines, then a line of text and
\* an object on one line with another start
C22_Witness ==
    /\ Returned("parseTwee")
    /\ \E doc \in StoryDataDocs :
          /\ args.content = doc.text
          /\ Cardinality(doc.has) = 6
          /\ doc.tail = << <<"x">>, <<"{", Q, "start", Q, ":", Q, "Z", Q, "}">> >>
          /\ Len(Split(JsonText(StoryDataObject(doc.has), 0), <<"\n">>)) = 10
    /\ ret.value.startPassage = <<"A">>
    /\ ret.value.zoom = Num(2)

(***************************************************************************)
(* C23                                                                     *)
(* parseTwine position and size: each of the four coordinates of a passage *)
(* is the integer value of its token when the token is numeric (including  *)
(* 0 and negative values), and 100 when the token is absent or             *)
(* non-numeric; a bad token never makes the parse fail.                    *)
(***************************************************************************)
\* the k-th token of an attribute (k counts from 0); absent for a missing
\* attribute and past the last comma
TokenOf(attr, k) ==
    IF attr = Undefined \/ k + 1 > Len(Split(attr, <<",">>)) THEN Undefined
    ELSE Split(attr, <<",">>)[k + 1]

\* a whole number in decimal digits, with or without a minus sign
IsNumeric(token) ==
    /\ token # Undefined
    /\ LET digits == IF token # <<>> /\ token[1] = "-" THEN Tail(token) ELSE token IN
       digits # <<>> /\ \A k \in 1..Len(digits) : IsDigit(digits[k])

\* the number the token is in decimal digits
ValueOf(token) ==
    IF token[1] = "-" THEN -Num(DigitsVal(token, 2, Len(token)))
    ELSE Num(DigitsVal(token, 1, Len(token)))

\* the coordinate a token stands for
CoordinateOf(token) == IF IsNumeric(token) THEN ValueOf(token) ELSE Num(100)

\* the passage of the archive has the coordinates of its tokens
HasCoordinates(result, position, size) ==
    /\ result # NoResult
    /\ Len(result.passages) = 1
    /\ result.passages[1].x = CoordinateOf(TokenOf(position, 0))
    /\ result.passages[1].y = CoordinateOf(TokenOf(position, 1))
    /\ result.passages[1].width = CoordinateOf(TokenOf(size, 0))
    /\ result.passages[1].height = CoordinateOf(TokenOf(size, 1))

C23_CoordinatesFromTokens ==
    Returned("parseTwine") =>
        \A doc \in CoordDocs :
            args.content = doc.text => HasCoordinates(ret.value, doc.position, doc.size)

\* the attribute has the token "0"
HasZeroToken(attr) == \E k \in 0..1 : TokenOf(attr, k) = <<"0">>

\* the coordinates do follow the tokens in every archive without the token "0",
\* and the parse never fails
CoordinatesFromNonZeroTokens ==
    Returned("parseTwine") =>
        \A doc \in CoordDocs :
            args.content = doc.text =>
                /\ ret.value # NoResult
                /\ (~HasZeroToken(doc.position) /\ ~HasZeroToken(doc.size))
                      => HasCoordinates(ret.value, doc.position, doc.size)

(***************************************************************************)
(* C24                                                                     *)
(* generateTwineArchive numbers the passages 1, 2, ..., n in the insertion *)
(* order of story.passages, each passage getting a distinct identifier,    *)
(* and the start-node reference is the identifier of the passage named     *)
(* startPassage, or "1" when no passage has that name.                     *)
(***************************************************************************)
\* the passage elements of an archive, in document order
PassageElements(text) ==
    ByTag(Children(text, ReadAttrs(text, 2).next), "<tw-passagedata")

\* the k-th element carries the number k and the name of the k-th passage
NumberedInOrder(text, passages) ==
    /\ Len(PassageElements(text)) = Len(passages)
    /\ \A k \in 1..Len(passages) :
          /\ GetAttr(PassageElements(text)[k].attrs, " pid=") = NatDigits(k)
          /\ GetAttr(PassageElements(text)[k].attrs, " name=") = passages[k].key

\* the start node is the number of the passage named startPassage, else 1
StartNodeRefers(text, story) ==
    LET startNode == Between(text, <<" startnode=", Q>>, <<Q>>) IN
    /\ \A k \in 1..Len(story.passages) :
          story.passages[k].key = story.startPassage => startNode = NatDigits(k)
    /\ (\A k \in 1..Len(story.passages) : story.passages[k].key # story.startPassage)
          => startNode = <<"1">>

PlayedMissing ==
    /\ Returned("play")
    /\ ~HasKey(args.story.passages, args.passageName)

\* the view is the message, with the name
ShowsNotFound ==
    /\ Includes(ret.value.html, <<"<p>Passage not found: ">>)
    /\ ret.value.html = <<"<p>Passage not found: ">> \o esc(args.passageName) \o <<"</p>">>

C26_MissingTargetShowsMessage == PlayedMissing => ShowsNotFound

\* the message is shown for every missing name that no object inherits
MissingNameShowsMessage ==
    (PlayedMissing /\ args.passageName \notin Inherited) => ShowsNotFound

\* after a missing passage the play button shows the start passage again
PlayerStillPlays ==
    [][ (PlayedMissing /\ playBtn /\ args'.passageName = <<"A">>)
            => Includes(ret'.value.html, <<"<h1>">>) ]_vars

(***************************************************************************)
(* C27                                                                     *)
(* When the database write of an add-passage, rename-passage,              *)
(* content-update or delete-passage operation fails, the in-memory current *)
(* story (its passages and startPassage) is the same as before the         *)
(* operation started: neither the part of the handler before the write nor *)
(* the part that runs when the write fails changes the story.              *)
(***************************************************************************)
PassageWrites == { "add", "rename", "content", "delete" }

\* this step is a handler reaching the write of one of the four operations
WriteQueued ==
    /\ Len(pending') = Len(pending) + 1
    /\ Queued.op \in PassageWrites

\* this step is the write of one of the four operations failing: the catch of
\* its handler runs
WriteFailed ==
    /\ pending # <<>>
    /\ Head(pending).op \in PassageWrites
    /\ pending' = Tail(pending)
    /\ rejected

KeptName(name) == ~IsBlank(name) /\ name \notin reservedOnImport

NoneKept(story) ==
    \A k \in 1..Len(story.passages) : ~KeptName(story.passages[k].key)

SanitizedFrom(story, data) ==
    /\ Len(data.passages) >= 1
    /\ \A k \in 1..Len(data.passages) : KeptName(data.passages[k].key)
    /\ data.javascript = <<>>
    /\ data.startPassage =
           IF HasKey(data.passages, story.startPassage)
           THEN story.startPassage
           ELSE data.passages[1].key

StoredAs(data) ==
    /\ Len(db') = Len(db) + 1
    /\ \A f \in DOMAIN data : db'[1][f] = data[f]

C28_ImportStoresSanitizedStory ==
    [][ /\ \A f \in ImportFiles, fresh \in FreshIfids :
             LET story == ParsedFiles[f][fresh]
             IN  importOnload(story) =>
                     IF story = NoResult \/ NoneKept(story)
                     THEN pending' = pending
                     ELSE Queued.op = "import" /\ SanitizedFrom(story, Queued.data)
        /\ importStored => StoredAs(Head(pending).data) ]_vars

\* the same with the start name left out: what the handler does keep
SanitizedPassages(data) ==
    /\ Len(data.passages) >= 1
    /\ \A k \in 1..Len(data.passages) : KeptName(data.passages[k].key)
    /\ data.javascript = <<>>

ImportStoresKeptPassages ==
    [][ /\ \A f \in ImportFiles, fresh \in FreshIfids :
             LET story == ParsedFiles[f][fresh]
             IN  importOnload(story) =>
                     IF story = NoResult \/ NoneKept(story)
                     THEN pending' = pending
                     ELSE Queued.op = "import" /\ SanitizedPassages(Queued.data)
        /\ importStored => StoredAs(Head(pending).data) ]_vars


(***************************************************************************)
(* C29                                                                     *)
(* A story never ends up with zero passages through deletion, also when    *)
(* delete handlers overlap: once a delete handler has completed, the open  *)
(* story and its stored document have at least one passage.                *)
(***************************************************************************)
C29_DeletionLeavesAPassage ==
    [][ passageDeleted =>
            /\ Len(db'[1].passages) >= 1
            /\ currentStory' # NullStory => Len(currentStory'.passages) >= 1 ]_vars

\* a second delete handler starts while the first waits for the database
DeletesOverlap ==
    /\ Len(pending) = 2
    /\ pending[1].op = "delete" /\ pending[2].op = "delete"
    /\ pending[1].name # pending[2].name

\* one delete handler at a time: the guard on the passage count is enough
DeletionAloneLeavesAPassage ==
    [][ (passageDeleted /\ Len(pending) = 1 /\ currentStory # NullStory
            /\ Len(currentStory.passages) >= 2)
            => Len(currentStory'.passages) >= 1 ]_vars


(***************************************************************************)
(* C30                                                                     *)
(* Firebase initialization is single-flight: at most one attempt (config   *)
(* fetch, then firebase.initializeApp) is in progress at a time and it is  *)
(* the one initPromise holds; a call that arrives while an attempt is in   *)
(* progress starts no fetch and waits on that attempt; a call that arrives *)
(* when none is in progress and a handle is missing, as after a failed     *)
(* attempt, starts a new attempt and waits on it, never on a rejected one. *)
(***************************************************************************)
InProgress == { a \in 1..Len(attempts) : attempts[a] \in {"fetch", "json"} }

OneInProgress == Cardinality(InProgress) <= 1 /\ InProgress \subseteq {initPromise}

Arrives == Len(callers') = Len(callers) + 1

Arrived == callers'[Len(callers')]

JoinsTheAttempt ==
    (Arrives /\ InProgress # {}) => attempts' = attempts /\ Arrived.on \in InProgress

StartsAfresh ==
    (Arrives /\ InProgress = {} /\ ~(firestore /\ auth)) =>
        /\ Len(attempts') = Len(attempts) + 1
        /\ Arrived.on = Len(attempts')
        /\ attempts'[Arrived.on] = "fetch"

====
